---- MODULE Spec2Model ----
(***************************************************************************)
(* otop (src/otop/main.py): a curses monitor that correlates running       *)
(* opencode processes (ps + lsof) with the sessions of opencode's sqlite   *)
(* database, infers a status per session and shows a sortable, filterable  *)
(* list.                                                                   *)
(*                                                                         *)
(* The specifications share the variables of this module:                  *)
(*   Spec        refresh_data: probe, two-pass claimed-set correlation,    *)
(*               tier ladder of find_session_for_process, snapshot build   *)
(*   SpecStatus  infer_status as a function of role, finish, age and CPU   *)
(*   SpecView    _get_visible_sessions with the list-mode keys that change *)
(*               its policy (toggles, sort column, sort direction, filter) *)
(*   SpecFilter  the visibility toggles and the typing of the filter text  *)
(*   SpecDb      refresh_data and the detail view when queries fail        *)
(*   SpecProbe   refresh_data when ps or lsof fail or print odd rows       *)
(*   SpecLog     _parse_log_timestamp as a function of the file name       *)
(*   SpecBlob    the decoding of part and message data blobs               *)
(*   SpecCli     cli: startup check, signal handlers, curses.wrapper, exit *)
(*   SpecRun     the run loop: refresh timing, list keys, filter input and *)
(*               the detail view                                           *)
(*   SpecLimit   pass 2 in a cwd with more sessions than a tier query      *)
(*               returns                                                   *)
(*   SpecWriter  get_session_info while the host tool commits messages     *)
(*                                                                         *)
(* Encodings.  Python None is the string NONE.  A command line is the      *)
(* sequence of its whitespace-separated tokens.  Times are epoch           *)
(* milliseconds.  A (proc, session) pair of self.sessions is a record      *)
(* [proc, session] whose session is NoSession when the pair holds None.    *)
(***************************************************************************)
EXTENDS Integers, Sequences, FiniteSets, TLC

VARIABLES
    ps_rows,            \* environment: rows of ps joined with lsof's cwd / log file
    db,                 \* environment: the opencode sqlite database
    processes,          \* self.processes
    sessions,           \* self.sessions
    claimed,            \* refresh_data: local set `claimed`
    resolved,           \* refresh_data: local dict `resolved` (pid -> session id)
    remaining,          \* refresh_data: local list `remaining`, not yet visited part
    call,               \* the last find_session_for_process call: arguments, rows, result
    pc,                 \* position of refresh_data
    status_call,        \* infer_status: inputs and returned label
    sort_col_idx,       \* self.sort_col_idx
    sort_reverse,       \* self.sort_reverse
    show_all_processes, \* self.show_all_processes
    show_all_sessions,  \* self.show_all_sessions
    filter_text,        \* self.filter_text, a sequence of characters
    filter_active,      \* self.filter_active
    visible,            \* the list returned by the last _get_visible_sessions
    prev_visible,       \* the list returned by the call before that one
    view_op,            \* what ran last: "none", "tick", "draw", "key", "filter_key", ...
    clock,              \* time.time() in ms, as last read
    faults,             \* environment: the outcomes ps, lsof and a query can have
    error,              \* the exception that left the run loop, NONE while it runs
    conns,              \* sqlite connections opened and not closed
    stmts,              \* the statements issued to the database so far
    lsof_calls,         \* the pid lists of the lsof invocations of the last probe
    built,              \* self.sessions as the last complete refresh_data left it
    seen,               \* self.sessions as the last drawing found it when it began
    last_io,            \* the outcomes of the external calls of the last step
    log_call,           \* _parse_log_timestamp: argument, result, exception
    blob_call,          \* the decoding of a data blob: function, blob, result, exception
    selected_idx,       \* self.selected_idx
    scroll_offset,      \* self.scroll_offset
    show_todos,         \* self.show_todos
    show_mcps,          \* self.show_mcps
    last_refresh,       \* self.last_refresh in ms, 0 when a refresh is forced
    height,             \* environment: the h of stdscr.getmaxyx()
    refreshed,          \* whether the last list-mode iteration ran refresh_data
    detail_mode,        \* self.detail_mode
    detail_session,     \* self.detail_session: <<>> for None, <<pair>> when set
    detail_source,      \* self.detail_source: "", "tmux" or "db"
    detail_lines,       \* self.detail_lines
    detail_scroll,      \* self.detail_scroll
    db_exists,          \* environment: DB_PATH.exists() at startup
    main_pc,            \* position of cli() and of curses.wrapper around run()
    handlers,           \* the signals _signal_exit is installed for
    terminal,           \* "shell", or "curses" between initscr() and endwin()
    in_flight,          \* the exception travelling up the main thread
    exit,               \* how the process ended and its exit code
    output,             \* what was written, as [stream, text] records
    signals,            \* the signals delivered so far
    info_call           \* one get_session_info call in progress: its query results

vars == <<ps_rows, db, processes, sessions, claimed, resolved, remaining, call, pc,
          status_call, sort_col_idx, sort_reverse, show_all_processes,
          show_all_sessions, filter_text, filter_active, visible, prev_visible,
          view_op, clock, faults, error, conns, stmts, lsof_calls, built, seen,
          last_io, log_call, blob_call, selected_idx, scroll_offset, show_todos,
          show_mcps, last_refresh, height, refreshed, detail_mode, detail_session,
          detail_source, detail_lines, detail_scroll, db_exists, main_pc, handlers,
          terminal, in_flight, exit, output, signals, info_call>>

corrVars == <<ps_rows, db, claimed, resolved, remaining, call, pc>>
statusVars == <<status_call, log_call, blob_call>>
viewVars == <<sort_col_idx, sort_reverse, show_all_processes, show_all_sessions,
              filter_text, filter_active, visible, prev_visible, view_op, clock>>
ioVars == <<faults, error, conns, stmts, lsof_calls, built, seen, last_io>>
navVars == <<selected_idx, scroll_offset, show_todos, show_mcps, last_refresh, height,
             refreshed>>
detailVars == <<detail_mode, detail_session, detail_source, detail_lines, detail_scroll>>
cliVars == <<db_exists, main_pc, handlers, terminal, in_flight, exit, output, signals>>
runVars == <<navVars, detailVars, cliVars, info_call>>

----------------------------------------------------------------------------
(* Bounds *)

MaxProcs == 2       \* rows of ps in one probe
MaxTime == 2        \* timestamps of the correlation model range over 0..MaxTime
MaxRows == 2        \* pairs in self.sessions of the view model
MaxFilterLen == 1   \* characters typed into the filter
MaxConns == 3       \* open connections are counted up to MaxConns

----------------------------------------------------------------------------
(* Generic helpers *)

NONE == "None"

Min(a, b) == IF a < b THEN a ELSE b

Max(a, b) == IF a > b THEN a ELSE b

Range(f) == {f[x] : x \in DOMAIN f}

RECURSIVE Perms(_)
Perms(S) ==
    IF S = {} THEN {<<>>}
    ELSE UNION {{<<x>> \o p : p \in Perms(S \ {x})} : x \in S}

SeqsUpTo(S, n) == UNION {[1..k -> S] : k \in 0..n}

----------------------------------------------------------------------------
(* Process probe: get_opencode_processes *)

\* a token matching ses_\S+
IsSesToken(tok) == tok \in {"ses_A", "ses_B", "ses_C"}

\* re.search(r"(?:^|\s)-s\s+(ses_\S+)", args): the first token that is exactly
\* "-s" and is followed by a token starting with ses_; group 1 is that token.
FlagPositions(args) ==
    {i \in 1..(Len(args) - 1) : args[i] = "-s" /\ IsSesToken(args[i + 1])}

ParseSessionFlag(args) ==
    LET hits == FlagPositions(args)
    IN  IF hits = {} THEN NONE
        ELSE args[(CHOOSE i \in hits : \A j \in hits : i <= j) + 1]

\* args_parts[1] == "run"
IsToolCmdline(args) == Len(args) > 1 /\ args[2] = "run"

\* "opencode" in args, no "opencode-htop"/"grep" in args, basename(args[0]) == "opencode"
IsOpencodeRow(args) ==
    /\ Len(args) > 0
    /\ \E i \in 1..Len(args) : args[i] = "opencode"
    /\ \A i \in 1..Len(args) : args[i] \notin {"opencode-htop", "grep"}
    /\ args[1] = "opencode"

\* cpu_percent is kept in tenths of a percent; mem_mb = rss / 1024 is kept as
\* the rss it is computed from (the division keeps the order)
ProcessInfo(row) ==
    [pid |-> row.pid,
     cpu_percent |-> row.cpu,
     mem_mb |-> row.rss,
     tty |-> row.tty,
     cwd |-> row.cwd,
     cmdline |-> row.args,
     session_id |-> ParseSessionFlag(row.args),
     start_time_ms |-> row.log_ms,
     is_tool_process |-> IsToolCmdline(row.args)]

\* what running ps or lsof can come to: the command ran ("ok"), the binary is
\* missing (FileNotFoundError), it ran into the 5 s timeout (TimeoutExpired)
ChildOutcomes == {"ok", "missing", "timeout"}

\* the shapes of a line of ps: six fields with numeric pid, %cpu and rss ("ok"),
\* fewer than six fields ("short"), or a pid, %cpu or rss field that int() or
\* float() rejects
RowShapes == {"ok", "short", "bad_pid", "bad_cpu", "bad_rss"}

\* the lines that get past the `continue`s of the ps loop, up to raw.append
RawRows(rows) ==
    LET passes(r) == r.shape # "short" /\ IsOpencodeRow(r.args)
    IN  SelectSeq(rows, passes)

\* as LsofCalls, with one invocation per pid
LsofCallsPerPid(pids) == [i \in 1..Len(pids) |-> <<pids[i]>>]

\* _batch_lsof(pids): the pid lists lsof is invoked with, none for no pid
LsofCalls(pids) == IF pids = <<>> THEN <<>> ELSE <<pids>>

\* what _batch_lsof knows of a row: cwd and log file when lsof ran, the
\* defaults of result_map ("?" and no log path) when it did not
LsofInfo(row, lsof_out) ==
    IF lsof_out = "ok" THEN row ELSE [row EXCEPT !.cwd = "?", !.log_ms = 0]

\* get_opencode_processes() when ps prints `rows` and ps and lsof come to
\* ps_out and lsof_out: the list returned, the exception raised instead (the
\* try around the ps loop catches TimeoutExpired and FileNotFoundError only),
\* and the invocations of lsof
get_opencode_processes(rows, ps_out, lsof_out) ==
    LET raw == RawRows(rows)
        pids == [i \in 1..Len(raw) |-> raw[i].pid]
    IN  IF ps_out # "ok"
        THEN [processes |-> <<>>, raised |-> NONE, lsof_calls |-> <<>>]
        ELSE IF \E i \in 1..Len(raw) : raw[i].shape # "ok"
        THEN [processes |-> <<>>, raised |-> "ValueError", lsof_calls |-> <<>>]
        ELSE [processes |-> [i \in 1..Len(raw) |-> ProcessInfo(LsofInfo(raw[i], lsof_out))],
              raised |-> NONE,
              lsof_calls |-> LsofCalls(pids)]

----------------------------------------------------------------------------
(* Database queries of the correlator *)

QUERY_LIMIT == 5

\* count(m.id) ... WHERE m.time_created >= ?
MsgsSince(d, sid, since) ==
    Cardinality({m \in d.message : m.session_id = sid /\ m.time_created >= since})

SessionRow(d, sid) == CHOOSE s \in d.session : s.id = sid

Limit(rows, n) == SubSeq(rows, 1, Min(n, Len(rows)))

\* tier 2: SELECT s.id, count(m.id) AS msgs_since FROM session s JOIN message m
\*         WHERE s.directory = ? AND m.time_created >= ? GROUP BY s.id
\*         ORDER BY msgs_since DESC LIMIT 5
Tier2Rows(d, cwd, since) ==
    {[id |-> s.id, msgs_since |-> MsgsSince(d, s.id, since)] :
        s \in {t \in d.session : t.directory = cwd /\ MsgsSince(d, t.id, since) >= 1}}

\* every row order the ORDER BY allows (rows with equal count come in any order)
Tier2Query(d, cwd, since) ==
    {Limit(p, QUERY_LIMIT) :
        p \in {q \in Perms(Tier2Rows(d, cwd, since)) :
                  \A i, j \in 1..Len(q) : i < j => q[i].msgs_since >= q[j].msgs_since}}

\* tier 3: SELECT id FROM session WHERE directory = ? ORDER BY time_updated DESC LIMIT 5
Tier3Rows(d, cwd) ==
    {[id |-> s.id, time_updated |-> s.time_updated] :
        s \in {t \in d.session : t.directory = cwd}}

Tier3Query(d, cwd) ==
    {Limit(p, QUERY_LIMIT) :
        p \in {q \in Perms(Tier3Rows(d, cwd)) :
                  \A i, j \in 1..Len(q) : i < j => q[i].time_updated >= q[j].time_updated}}

\* as FirstUnclaimed, looking at the first row only
FirstRowIfUnclaimed(rows, claimed_ids) ==
    IF rows = <<>> \/ rows[1].id \in claimed_ids THEN NONE ELSE rows[1].id

\* for row in rows: if row["id"] not in claimed: return row["id"]
FirstUnclaimed(rows, claimed_ids) ==
    LET free == {i \in 1..Len(rows) : rows[i].id \notin claimed_ids}
    IN  IF free = {} THEN NONE
        ELSE rows[CHOOSE i \in free : \A j \in free : i <= j].id

----------------------------------------------------------------------------
(* query_db: one connection per query, opened read-only *)

\* every external call succeeds
NoFaults == [ps |-> {"ok"}, lsof |-> {"ok"}, db |-> {"ok"}]

NoIo == [ps |-> NONE, lsof |-> NONE, db |-> <<>>, outs |-> <<>>, tmux |-> NONE]

\* what a query_db call can meet: the query runs ("ok"), DB_PATH does not exist
\* ("absent"), sqlite3.connect raises ("open_error"), execute or fetchall raises,
\* for instance on a lock held by the host writer ("exec_error")
DbOutcomes == {"ok", "absent", "open_error", "exec_error"}

\* file:...?mode=ro
CONN_MODE == "ro"

\* as SqlVerb, with the session query touching the session it reads
SqlVerbTouching(name) == IF name = "session_info" THEN "UPDATE" ELSE "SELECT"

\* the verb of the statement each call site passes to query_db
SqlVerb(name) ==
    CASE name = "tier2" -> "SELECT"
      [] name = "tier3" -> "SELECT"
      [] name = "session_info" -> "SELECT"
      [] name = "last_msg" -> "SELECT"
      [] name = "round_msg" -> "SELECT"
      [] name = "last_part" -> "SELECT"
      [] name = "todos" -> "SELECT"
      [] name = "global_stats" -> "SELECT"
      [] name = "today_stats" -> "SELECT"
      [] name = "recent_messages" -> "SELECT"
      [] name = "message_part" -> "SELECT"

\* the database after a statement ran on a connection of the given mode: a
\* read-only connection refuses every write, a SELECT changes nothing
Execute(d, verb, mode, outcome) ==
    IF outcome # "ok" \/ verb = "SELECT" \/ mode = "ro" THEN d
    ELSE [d EXCEPT !.session = {[r EXCEPT !.time_updated = 0] : r \in d.session}]

\* as query_db, with the database error handed to the caller
query_db_raising(outcome, rows) ==
    [rows |-> IF outcome = "ok" THEN rows ELSE <<>>,
     raised |-> IF outcome \in {"open_error", "exec_error"} THEN "sqlite3.Error" ELSE NONE,
     open |-> IF outcome = "exec_error" THEN 1 ELSE 0]

\* query_db(sql, params) meeting `outcome`, `rows` being what the statement
\* selects: the rows returned, the exception raised, and the connections left
\* open (conn.close() is reached only when execute and fetchall succeed)
query_db(outcome, rows) ==
    [rows |-> IF outcome = "ok" THEN rows ELSE <<>>,
     raised |-> NONE,
     open |-> IF outcome = "exec_error" THEN 1 ELSE 0]

\* the calls of query_db one step made: call site and outcome
DbCall(name, outcome) == [name |-> name, outcome |-> outcome]

\* the connections a sequence of calls leaves open
RECURSIVE OpenAfter(_)
OpenAfter(calls) ==
    IF calls = <<>> THEN 0
    ELSE query_db(Head(calls).outcome, <<>>).open + OpenAfter(Tail(calls))

\* the first exception a sequence of calls raises
RECURSIVE RaisedBy(_)
RaisedBy(calls) ==
    IF calls = <<>> THEN NONE
    ELSE IF query_db(Head(calls).outcome, <<>>).raised # NONE
         THEN query_db(Head(calls).outcome, <<>>).raised
         ELSE RaisedBy(Tail(calls))

\* the statements a sequence of calls sent to the database
Issued(calls) ==
    {[name |-> calls[i].name, verb |-> SqlVerb(calls[i].name), mode |-> CONN_MODE] :
        i \in {j \in 1..Len(calls) : calls[j].outcome \in {"ok", "exec_error"}}}

\* the database after a sequence of calls
RECURSIVE ExecuteAll(_, _)
ExecuteAll(d, calls) ==
    IF calls = <<>> THEN d
    ELSE ExecuteAll(Execute(d, SqlVerb(Head(calls).name), CONN_MODE, Head(calls).outcome),
                    Tail(calls))

NoCall == [pid |-> 0, claimed |-> {}, ran2 |-> FALSE, rows2 |-> <<>>,
           ran3 |-> FALSE, rows3 |-> <<>>, ret |-> NONE]

\* as find_session_for_process, with the tiers in the wrong order
find_session_tier3_first(proc, claimed_ids, rows2, rows3) ==
    LET base == [NoCall EXCEPT !.pid = proc.pid, !.claimed = claimed_ids]
    IN  IF proc.session_id # NONE THEN [base EXCEPT !.ret = proc.session_id]
        ELSE IF proc.cwd = "" \/ proc.cwd = "?" THEN base
        ELSE IF FirstUnclaimed(rows3, claimed_ids) # NONE
             THEN [base EXCEPT !.ran3 = TRUE, !.rows3 = rows3,
                               !.ret = FirstUnclaimed(rows3, claimed_ids)]
             ELSE [base EXCEPT !.ran3 = TRUE, !.rows3 = rows3,
                               !.ran2 = proc.start_time_ms > 0,
                               !.rows2 = IF proc.start_time_ms > 0 THEN rows2 ELSE <<>>,
                               !.ret = IF proc.start_time_ms > 0
                                       THEN FirstUnclaimed(rows2, claimed_ids) ELSE NONE]

\* find_session_for_process(proc, claimed_session_ids); rows2 and rows3 are what
\* the tier-2 and tier-3 queries return when the function gets to run them.
\* The result records which queries ran, their rows and the returned id.
find_session_for_process(proc, claimed_ids, rows2, rows3) ==
    LET base == [NoCall EXCEPT !.pid = proc.pid, !.claimed = claimed_ids]
        t2 == IF proc.start_time_ms > 0 THEN FirstUnclaimed(rows2, claimed_ids) ELSE NONE
    IN  IF proc.session_id # NONE THEN [base EXCEPT !.ret = proc.session_id]
        ELSE IF proc.cwd = "" \/ proc.cwd = "?" THEN base
        ELSE IF t2 # NONE
             THEN [base EXCEPT !.ran2 = TRUE, !.rows2 = rows2, !.ret = t2]
             ELSE [base EXCEPT !.ran2 = proc.start_time_ms > 0,
                               !.rows2 = IF proc.start_time_ms > 0 THEN rows2 ELSE <<>>,
                               !.ran3 = TRUE, !.rows3 = rows3,
                               !.ret = FirstUnclaimed(rows3, claimed_ids)]

----------------------------------------------------------------------------
(* Status inference: infer_status *)

\* cpu_percent is kept in tenths of a percent: cpu_active = cpu_percent > 5.0
CPU_ACTIVE_X10 == 50

\* age_seconds = (now_ms - last_message_time) / 1000 if last_message_time else 9999,
\* kept in milliseconds
AgeMs(session, now_ms) ==
    IF session.last_message_time # 0 THEN now_ms - session.last_message_time
    ELSE 9999000

\* as infer_status, with the CPU check of the "stop" branch left out
infer_status_stop_idle(session, cpu_x10, now_ms) ==
    LET age == AgeMs(session, now_ms)
        cpu_active == cpu_x10 > CPU_ACTIVE_X10
    IN  IF session.last_message_role = "assistant"
        THEN IF session.last_finish = NONE \/ session.last_finish = ""
             THEN IF age < 120000 THEN "generating"
                  ELSE IF cpu_active THEN "busy" ELSE "stale"
             ELSE IF session.last_finish = "tool-calls"
             THEN IF age < 30000 THEN "tool use"
                  ELSE IF cpu_active THEN "busy" ELSE "idle"
             ELSE IF session.last_finish = "stop" THEN "idle"
             ELSE IF session.last_finish = "length" THEN "truncated"
             ELSE "idle"
        ELSE IF session.last_message_role = "user"
        THEN IF cpu_active THEN "thinking"
             ELSE IF age < 60000 THEN "thinking" ELSE "queued"
        ELSE "unknown"

\* infer_status(session, cpu_percent), with the value time.time() returns
infer_status(session, cpu_x10, now_ms) ==
    LET age == AgeMs(session, now_ms)
        cpu_active == cpu_x10 > CPU_ACTIVE_X10
    IN  IF session.last_message_role = "assistant"
        THEN IF session.last_finish = NONE \/ session.last_finish = ""
             THEN IF age < 120000 THEN "generating"
                  ELSE IF cpu_active THEN "busy" ELSE "stale"
             ELSE IF session.last_finish = "tool-calls"
             THEN IF age < 30000 THEN "tool use"
                  ELSE IF cpu_active THEN "busy" ELSE "idle"
             ELSE IF session.last_finish = "stop"
             THEN IF cpu_active THEN "busy" ELSE "idle"
             ELSE IF session.last_finish = "length" THEN "truncated"
             ELSE "idle"
        ELSE IF session.last_message_role = "user"
        THEN IF cpu_active THEN "thinking"
             ELSE IF age < 60000 THEN "thinking" ELSE "queued"
        ELSE "unknown"

\* one call of infer_status on the inputs drawn by InitStatus
infer_status_call ==
    /\ status_call.ret = NONE
    /\ status_call' = [status_call EXCEPT
                          !.ret = infer_status(status_call.session,
                                               status_call.cpu_percent,
                                               status_call.now_ms)]
    /\ UNCHANGED <<runVars, ps_rows, db, processes, sessions, claimed, resolved, remaining,
                   call, pc, viewVars, ioVars, log_call, blob_call>>

----------------------------------------------------------------------------
(* Session facts: get_session_info, as far as the correlator needs them *)

NoSession == [session_id |-> NONE]

\* the outcomes of the five queries of one get_session_info call
InfoQueries == <<"session_info", "last_msg", "round_msg", "last_part", "todos">>

AllOk == [q \in Range(InfoQueries) |-> "ok"]

\* the outcome combinations considered for one get_session_info call under
\* the possible outcomes f: every query meets the same outcome, or exactly one
\* query meets an outcome other than "ok"
InfoOutcomes(f) ==
    {[q \in Range(InfoQueries) |-> o] : o \in f}
    \cup {[AllOk EXCEPT ![q] = o] : q \in Range(InfoQueries), o \in f}

\* SELECT s.id, ..., count(m.id) ... WHERE s.id = ? GROUP BY s.id
SessionInfoRows(d, sid) ==
    IF \A s \in d.session : s.id # sid THEN <<>>
    ELSE <<[id |-> sid,
            directory |-> SessionRow(d, sid).directory,
            time_updated |-> SessionRow(d, sid).time_updated,
            msg_count |-> Cardinality({m \in d.message : m.session_id = sid})]>>

\* SELECT ..., time_created FROM message WHERE session_id = ?
\* ORDER BY time_created DESC LIMIT 1
LastMsgRows(d, sid) ==
    LET msgs == {m \in d.message : m.session_id = sid}
    IN  IF msgs = {} THEN <<>>
        ELSE <<CHOOSE m \in msgs : \A o \in msgs : o.time_created <= m.time_created>>

\* the query_db calls of get_session_info(sid): the four later queries run
\* only when the first one returned a row
SessionInfoCalls(d, sid, outs) ==
    IF query_db(outs.session_info, SessionInfoRows(d, sid)).rows = <<>>
    THEN <<DbCall("session_info", outs.session_info)>>
    ELSE [i \in 1..Len(InfoQueries) |-> DbCall(InfoQueries[i], outs[InfoQueries[i]])]

\* get_session_info(session_id) when its queries meet the outcomes `outs`
get_session_info(d, sid, outs) ==
    LET rows == query_db(outs.session_info, SessionInfoRows(d, sid)).rows
        last_msg == query_db(outs.last_msg, LastMsgRows(d, sid)).rows
    IN  IF rows = <<>> THEN NoSession
        ELSE [session_id |-> sid,
              directory |-> rows[1].directory,
              time_updated |-> rows[1].time_updated,
              message_count |-> rows[1].msg_count,
              last_message_time |->
                  IF last_msg = <<>> THEN 0 ELSE last_msg[1].time_created]

----------------------------------------------------------------------------
(* refresh_data: the two-pass claimed-set algorithm *)

\* a < b for two strings (sequences of character codes) or two numbers <<n>>,
\* as Python compares them
SeqLess(a, b) ==
    \E k \in 1..(Min(Len(a), Len(b)) + 1) :
        /\ \A j \in 1..(k - 1) : a[j] = b[j]
        /\ \/ k > Len(a) /\ k <= Len(b)
           \/ k <= Len(a) /\ k <= Len(b) /\ a[k] < b[k]

\* x < y for two key tuples of the same length, as Python compares tuples
TupleLess(x, y) ==
    \E k \in 1..Len(x) :
        /\ \A j \in 1..(k - 1) : x[j] = y[j]
        /\ SeqLess(x[k], y[k])

\* list.sort(key=..., reverse=...): keys[i] is the key of seq[i]; the sort is
\* stable in both directions (rows with equal key keep their order)
SortStable(seq, keys, reverse) ==
    LET n == Len(seq)
        before(j, i) == IF reverse THEN TupleLess(keys[i], keys[j])
                                   ELSE TupleLess(keys[j], keys[i])
        pos(i) == 1 + Cardinality({j \in 1..n :
                        \/ before(j, i)
                        \/ (keys[j] = keys[i] /\ j < i)})
    IN  [k \in 1..n |-> seq[CHOOSE i \in 1..n : pos(i) = k]]

\* as StartKeys, for a descending sort
StartKeysDescending(procs) == [i \in 1..Len(procs) |-> <<<<0 - procs[i].start_time_ms>>>>]

\* key=lambda p: p.start_time_ms
StartKeys(procs) == [i \in 1..Len(procs) |-> <<<<procs[i].start_time_ms>>>>]

\* as Pass1Resolved, without the exclusion of tool processes
Pass1ResolvedWithTools(procs) ==
    LET explicit == {i \in 1..Len(procs) : procs[i].session_id # NONE}
    IN  [pid \in {procs[i].pid : i \in explicit} |->
            (CHOOSE p \in Range(procs) : p.pid = pid).session_id]

\* as Pass1Resolved, binding only ids that the database knows
Pass1ResolvedVerified(procs) ==
    LET explicit == {i \in 1..Len(procs) :
                        /\ procs[i].session_id # NONE
                        /\ ~procs[i].is_tool_process
                        /\ \E s \in db.session : s.id = procs[i].session_id}
    IN  [pid \in {procs[i].pid : i \in explicit} |->
            (CHOOSE p \in Range(procs) : p.pid = pid).session_id]

\* pass 1: for proc in self.processes:
\*             if proc.session_id and not proc.is_tool_process:
\*                 claimed.add(proc.session_id); resolved[proc.pid] = proc.session_id
Pass1Resolved(procs) ==
    LET explicit == {i \in 1..Len(procs) :
                        procs[i].session_id # NONE /\ ~procs[i].is_tool_process}
    IN  [pid \in {procs[i].pid : i \in explicit} |->
            (CHOOSE p \in Range(procs) : p.pid = pid).session_id]

\* as Pass2Remaining, without the sort
Pass2RemainingUnsorted(procs, res) ==
    LET keep(p) == p.pid \notin DOMAIN res /\ ~p.is_tool_process
    IN  SelectSeq(procs, keep)

\* remaining = [p for p in self.processes
\*              if p.pid not in resolved and not p.is_tool_process]
\* remaining.sort(key=lambda p: p.start_time_ms)
Pass2Remaining(procs, res) ==
    LET keep(p) == p.pid \notin DOMAIN res /\ ~p.is_tool_process
        rest == SelectSeq(procs, keep)
    IN  SortStable(rest, StartKeys(rest), FALSE)

\* for proc in self.processes:
\*     sid = resolved.get(proc.pid); info = get_session_info(sid) if sid else None
\*     self.sessions.append((proc, info))
\* outs[i] are the outcomes the queries for procs[i] meet
BuildSessions(procs, res, d, outs) ==
    [i \in 1..Len(procs) |->
        [proc |-> procs[i],
         session |-> IF procs[i].pid \in DOMAIN res
                     THEN get_session_info(d, res[procs[i].pid], outs[i])
                     ELSE NoSession]]

\* the query_db calls of the final loop, in order
RECURSIVE BuildCalls(_, _, _, _)
BuildCalls(procs, res, d, outs) ==
    IF procs = <<>> THEN <<>>
    ELSE (IF Head(procs).pid \in DOMAIN res
          THEN SessionInfoCalls(d, res[Head(procs).pid], Head(outs))
          ELSE <<>>)
         \o BuildCalls(Tail(procs), res, d, Tail(outs))

\* what a step that made the query_db calls `calls` leaves of the connection
\* count, the statement log, the database and the run loop
DbEffects(calls) ==
    /\ conns' = Min(conns + OpenAfter(calls), MaxConns)
    /\ stmts' = stmts \cup Issued(calls)
    /\ db' = ExecuteAll(db, calls)
    /\ error' = RaisedBy(calls)
    /\ last_io' = [NoIo EXCEPT !.db = calls]

\* get_opencode_processes(), get_today_stats(), get_global_stats() and pass 1
refresh_data_pass1 ==
    /\ main_pc = "run"
    /\ pc \in {"start", "done"}
    /\ error = NONE
    /\ \E ps_out \in faults.ps, lsof_out \in faults.lsof, o1 \in faults.db,
          o2 \in faults.db :
          LET probe == get_opencode_processes(ps_rows, ps_out, lsof_out)
              calls == <<DbCall("today_stats", o1), DbCall("global_stats", o2)>>
          IN  /\ lsof_calls' = probe.lsof_calls
              /\ IF probe.raised # NONE
                 THEN /\ error' = probe.raised
                      /\ last_io' = [NoIo EXCEPT !.ps = ps_out]
                      /\ UNCHANGED <<runVars, processes, resolved, claimed, remaining, call, pc,
                                     db, conns, stmts>>
                 ELSE /\ processes' = probe.processes
                      /\ resolved' = Pass1Resolved(processes')
                      /\ claimed' = Range(resolved')
                      /\ remaining' = Pass2Remaining(processes', resolved')
                      /\ call' = NoCall
                      /\ pc' = "pass2"
                      /\ conns' = Min(conns + OpenAfter(calls), MaxConns)
                      /\ stmts' = stmts \cup Issued(calls)
                      /\ db' = ExecuteAll(db, calls)
                      /\ error' = RaisedBy(calls)
                      /\ last_io' = [NoIo EXCEPT !.ps = ps_out, !.db = calls,
                                       !.lsof = IF probe.lsof_calls = <<>> THEN NONE
                                                ELSE lsof_out]
    /\ UNCHANGED <<runVars, ps_rows, sessions, statusVars, viewVars, faults, built, seen>>

\* one iteration of the pass-2 loop
refresh_data_pass2 ==
    /\ main_pc = "run"
    /\ pc = "pass2"
    /\ remaining # <<>>
    /\ error = NONE
    /\ LET proc == Head(remaining)
       IN  \E rows2 \in Tier2Query(db, proc.cwd, proc.start_time_ms),
              rows3 \in Tier3Query(db, proc.cwd), o2 \in faults.db, o3 \in faults.db :
               LET c == find_session_for_process(proc, claimed,
                            query_db(o2, rows2).rows, query_db(o3, rows3).rows)
                   calls == (IF c.ran2 THEN <<DbCall("tier2", o2)>> ELSE <<>>)
                            \o (IF c.ran3 THEN <<DbCall("tier3", o3)>> ELSE <<>>)
               IN  /\ call' = c
                   /\ DbEffects(calls)
                   /\ IF c.ret # NONE
                      THEN /\ claimed' = claimed \cup {c.ret}
                           /\ resolved' = [pid \in DOMAIN resolved \cup {proc.pid} |->
                                              IF pid = proc.pid THEN c.ret ELSE resolved[pid]]
                      ELSE UNCHANGED <<runVars, claimed, resolved>>
    /\ remaining' = Tail(remaining)
    /\ UNCHANGED <<runVars, ps_rows, processes, sessions, pc, statusVars, viewVars, faults,
                   lsof_calls, built, seen>>

\* the final loop that builds self.sessions, and the return
refresh_data_build ==
    /\ main_pc = "run"
    /\ pc = "pass2"
    /\ remaining = <<>>
    /\ error = NONE
    /\ \E outs \in [1..Len(processes) -> InfoOutcomes(faults.db)] :
          /\ sessions' = BuildSessions(processes, resolved, db, outs)
          /\ conns' = Min(conns + OpenAfter(BuildCalls(processes, resolved, db, outs)),
                          MaxConns)
          /\ stmts' = stmts \cup Issued(BuildCalls(processes, resolved, db, outs))
          /\ db' = ExecuteAll(db, BuildCalls(processes, resolved, db, outs))
          /\ error' = RaisedBy(BuildCalls(processes, resolved, db, outs))
          /\ last_io' = [NoIo EXCEPT
                             !.db = BuildCalls(processes, resolved, db, outs),
                             !.outs = [i \in 1..Len(processes) |->
                                          IF processes[i].pid \in DOMAIN resolved
                                          THEN outs[i] ELSE AllOk]]
    /\ built' = sessions'
    /\ pc' = "done"
    /\ UNCHANGED <<runVars, ps_rows, processes, claimed, resolved, remaining, call,
                   statusVars, viewVars, faults, lsof_calls, seen>>

\* the garbage collector finalises the connection objects query_db dropped
\* without closing them; when it runs is up to the interpreter
gc ==
    /\ conns > 0
    /\ conns' = 0
    /\ UNCHANGED <<runVars, corrVars, processes, sessions, statusVars, viewVars, faults, error,
                   stmts, lsof_calls, built, seen, last_io>>

\* SELECT data, time_created FROM message WHERE session_id = ?
\* ORDER BY time_created DESC LIMIT ?
RecentMessageRows(d, sid) ==
    LET msgs == {m \in d.message : m.session_id = sid}
    IN  CHOOSE q \in Perms(msgs) :
            \A i, j \in 1..Len(q) : i < j => q[i].time_created >= q[j].time_created

\* the query_db calls of get_recent_messages(sid): the message query and one
\* part query per message it returned
RecentMessagesCalls(d, sid, out, part_outs) ==
    <<DbCall("recent_messages", out)>>
    \o [k \in 1..Len(query_db(out, RecentMessageRows(d, sid)).rows) |->
            DbCall("message_part", part_outs[k])]

\* refresh_detail_data for the pair i that _enter_detail stored (key r of the
\* detail view, and the last step of _enter_detail): tmux tells whether the
\* pane capture gave lines, which keeps the database out of it
refresh_detail_data(i, tmux) ==
    /\ pc = "done"
    /\ error = NONE
    /\ i \in 1..Len(sessions)
    /\ \E out \in faults.db,
          part_out \in faults.db :
          DbEffects(IF tmux \/ sessions[i].session = NoSession THEN <<>>
                    ELSE RecentMessagesCalls(db, sessions[i].session.session_id, out,
                             [k \in 1..Cardinality(db.message) |-> part_out]))
    /\ UNCHANGED <<runVars, ps_rows, claimed, resolved, remaining, call, pc, processes, sessions,
                   statusVars, viewVars, faults, lsof_calls, built, seen>>

----------------------------------------------------------------------------
(* Strings of the view: characters, order, lower case, substring *)

\* the characters of the model's strings, in code point order
Alphabet ==
    <<" ", "-", "1", "2", "?", "A", "B", "C", "_",
      "a", "b", "c", "d", "e", "f", "g", "h", "i", "j", "k", "l", "m",
      "n", "o", "p", "q", "r", "s", "t", "u", "v", "w", "x", "y", "z">>

CodeTable ==
    [c \in Range(Alphabet) |-> CHOOSE i \in 1..Len(Alphabet) : Alphabet[i] = c]

Code(c) == CodeTable[c]

\* the characters of a string value
Chars(str) ==
    CASE str = "" -> <<>>
      [] str = "?" -> <<"?">>
      [] str = "a" -> <<"a">>
      [] str = "b" -> <<"b">>
      [] str = "B" -> <<"B">>
      [] str = "m" -> <<"m">>
      [] str = "d1" -> <<"d", "1">>
      [] str = "d2" -> <<"d", "2">>
      [] str = "t1" -> <<"t", "1">>
      [] str = "t2" -> <<"t", "2">>
      [] str = "ttys001" -> <<"t", "t", "y", "s", "1">>
      [] str = "ses_A" -> <<"s", "e", "s", "_", "A">>
      [] str = "ses_B" -> <<"s", "e", "s", "_", "B">>
      [] str = "ses_C" -> <<"s", "e", "s", "_", "C">>
      [] str = "busy" -> <<"b", "u", "s", "y">>
      [] str = "generating" -> <<"g", "e", "n", "e", "r", "a", "t", "i", "n", "g">>
      [] str = "idle" -> <<"i", "d", "l", "e">>
      [] str = "queued" -> <<"q", "u", "e", "u", "e", "d">>
      [] str = "stale" -> <<"s", "t", "a", "l", "e">>
      [] str = "thinking" -> <<"t", "h", "i", "n", "k", "i", "n", "g">>
      [] str = "tool use" -> <<"t", "o", "o", "l", " ", "u", "s", "e">>
      [] str = "truncated" -> <<"t", "r", "u", "n", "c", "a", "t", "e", "d">>
      [] str = "unknown" -> <<"u", "n", "k", "n", "o", "w", "n">>

\* str.lower()
LowerChar(c) ==
    CASE c = "A" -> "a" [] c = "B" -> "b" [] c = "C" -> "c" [] OTHER -> c

Lower(cs) == [i \in 1..Len(cs) |-> LowerChar(cs[i])]

\* the sort value of a string: its code points
Codes(cs) == [i \in 1..Len(cs) |-> Code(cs[i])]

\* needle in hay
IsSubstring(needle, hay) ==
    \E off \in 0..(Len(hay) - Len(needle)) :
        \A j \in 1..Len(needle) : hay[off + j] = needle[j]

----------------------------------------------------------------------------
(* The visible list: _sort_value and _get_visible_sessions *)

COLUMNS ==
    <<"status", "title", "last", "msgs", "sid", "pid", "uptime", "round",
      "cpu", "mem", "tokens", "model", "tty">>

\* _sort_value(key, proc, session): the tuple (has_no_session, primary, title);
\* now_ms is what time.time() returns in _sort_value, status_now what it returns
\* in the infer_status call of the same _sort_value
sort_value(key, proc, session, now_ms, status_now) ==
    IF session = NoSession THEN << <<1>>, <<0>>, <<>> >>
    ELSE LET title == Codes(Lower(Chars(session.title)))
             primary ==
                 CASE key = "pid" -> <<proc.pid>>
                   [] key = "sid" -> Codes(Chars(session.session_id))
                   [] key = "tty" -> Codes(Chars(proc.tty))
                   [] key = "cpu" -> <<proc.cpu_percent>>
                   [] key = "mem" -> <<proc.mem_mb>>
                   [] key = "status" ->
                        Codes(Chars(infer_status(session, proc.cpu_percent, status_now)))
                   [] key = "model" -> Codes(Chars(session.model))
                   [] key = "msgs" -> <<session.message_count>>
                   [] key = "tokens" -> <<session.total_input_tokens>>
                   [] key = "title" -> title
                   [] key = "uptime" ->
                        <<IF proc.start_time_ms > 0 THEN proc.start_time_ms ELSE now_ms>>
                   [] key = "round" ->
                        <<IF session.round_start_time > 0
                          THEN now_ms - session.round_start_time ELSE 0>>
                   [] key = "last" -> Codes(Chars(session.last_output))
                   [] OTHER -> <<0>>
         IN  << <<0>>, primary, title >>

\* as PassesVisibility, with tool processes that hold no session hidden only
PassesVisibilityToolOnly(pair, all_procs, all_sess) ==
    /\ all_procs \/ ~pair.proc.is_tool_process
    /\ all_sess \/ pair.session = NoSession \/ pair.session.interactive

\* the conditions of the two visibility comprehensions (p key, a key)
PassesVisibility(pair, all_procs, all_sess) ==
    /\ all_procs \/ (~pair.proc.is_tool_process /\ pair.session # NoSession)
    /\ all_sess \/ pair.session = NoSession \/ pair.session.interactive

\* as MatchesFilter, with the fields compared as they are stored
MatchesFilterCaseSensitive(pair, needle, status_now) ==
    LET p == pair.proc
        s == pair.session
        has == s # NoSession
    IN  \/ has /\ IsSubstring(needle, Chars(s.title))
        \/ has /\ IsSubstring(needle, Chars(s.model))
        \/ has /\ IsSubstring(needle, Chars(s.session_id))
        \/ IsSubstring(needle, Chars(p.cwd))
        \/ IsSubstring(needle, Chars(p.tty))
        \/ has /\ IsSubstring(needle, Chars(infer_status(s, p.cpu_percent, status_now)))

\* the condition of the filter comprehension, for a non-empty needle;
\* status_now is what time.time() returns if infer_status gets called
MatchesFilter(pair, needle, status_now) ==
    LET p == pair.proc
        s == pair.session
        has == s # NoSession
    IN  \/ has /\ IsSubstring(needle, Lower(Chars(s.title)))
        \/ has /\ IsSubstring(needle, Lower(Chars(s.model)))
        \/ has /\ IsSubstring(needle, Lower(Chars(s.session_id)))
        \/ IsSubstring(needle, Lower(Chars(p.cwd)))
        \/ IsSubstring(needle, Lower(Chars(p.tty)))
        \/ has /\ IsSubstring(needle,
                      Lower(Chars(infer_status(s, p.cpu_percent, status_now))))

\* the values time.time() returns in one _get_visible_sessions call: one per
\* row for the filter and one per row for _sort_value (the two reads of one
\* _sort_value call never both enter its result)
ReadsPerCall(sess) == 2 * Len(sess)

\* _get_visible_sessions under the given policy; reads are the values of
\* time.time() in call order.  Returns the list and self.sessions as the call
\* leaves it: with both toggles on and no filter text `filtered` is self.sessions
\* itself and filtered.sort() sorts it in place.
get_visible_sessions(sess, all_procs, all_sess, ftext, col_idx, reverse, reads) ==
    LET n == Len(sess)
        keep(i) ==
            /\ PassesVisibility(sess[i], all_procs, all_sess)
            /\ ftext = <<>> \/ MatchesFilter(sess[i], Lower(ftext), reads[i])
        kept == SelectSeq([i \in 1..n |-> i], keep)
        rows == [k \in 1..Len(kept) |-> sess[kept[k]]]
        keys == [k \in 1..Len(kept) |->
                    sort_value(COLUMNS[col_idx + 1], rows[k].proc, rows[k].session,
                               reads[n + k], reads[n + k])]
        sorted == SortStable(rows, keys, reverse)
        same_list == all_procs /\ all_sess /\ ftext = <<>>
    IN  [visible |-> sorted, sessions |-> IF same_list THEN sorted ELSE sess]

\* the clock values a run of n reads can return: the clock advances at most
\* once while the reads are made
ClockSamples == {120000, 120001}

ReadSeqs(n) ==
    {[i \in 1..n |-> IF i < k THEN clock ELSE t] :
        k \in 1..(n + 1), t \in {c \in ClockSamples \cup {clock} : c >= clock}}

LastRead(reads) == IF reads = <<>> THEN clock ELSE reads[Len(reads)]

\* one drawing of the list view: draw_session_table and then draw_detail_line
\* each compute the visible list (the todos panel is closed)
draw ==
    /\ main_pc = "run"
    /\ pc = "done"
    /\ \E reads \in ReadSeqs(2 * ReadsPerCall(sessions)) :
          LET n == ReadsPerCall(sessions)
              first == get_visible_sessions(sessions, show_all_processes,
                           show_all_sessions, filter_text, sort_col_idx, sort_reverse,
                           SubSeq(reads, 1, n))
              second == get_visible_sessions(first.sessions, show_all_processes,
                           show_all_sessions, filter_text, sort_col_idx, sort_reverse,
                           SubSeq(reads, n + 1, 2 * n))
          IN  /\ prev_visible' = first.visible
              /\ visible' = second.visible
              /\ sessions' = second.sessions
              /\ clock' = LastRead(reads)
    /\ view_op' = "draw"
    /\ seen' = sessions
    /\ ~detail_mode
    /\ UNCHANGED <<runVars, corrVars, processes, statusVars, sort_col_idx, sort_reverse,
                   show_all_processes, show_all_sessions, filter_text, filter_active,
                   faults, error, conns, stmts, lsof_calls, built, last_io>>

\* the rows of the list that fit the screen: 3 rows per session after an
\* overhead of 10 rows, 8 more when a panel is open (lines 2080-2086)
VisibleSessions(h, panel) == Max(1, (h - (IF panel THEN 18 ELSE 10)) \div 3)

\* the navigation at the end of the key handling (lines 2073-2092): j and k
\* move the selection, the selection is clamped to the visible list and the
\* scroll offset follows it
Navigate(key, vis, sel, off, h, panel) ==
    LET max_idx == Max(0, Len(vis) - 1)
        moved == IF key = "j" THEN Min(sel + 1, max_idx)
                 ELSE IF key = "k" THEN Max(sel - 1, 0)
                 ELSE sel
        clamped == Min(moved, max_idx)
        down == IF clamped >= off + VisibleSessions(h, panel)
                THEN clamped - VisibleSessions(h, panel) + 1 ELSE off
    IN  [selected_idx |-> clamped,
         scroll_offset |-> IF clamped < down THEN clamped ELSE down]

\* a key of list mode outside filter input, other than q, enter and y, or the
\* timeout of getch() ("none"): the changes of the view policy, and the
\* computation of the visible list and the navigation that follow them in the
\* same iteration
list_key(key) ==
    /\ main_pc = "run"
    /\ pc = "done"
    /\ ~filter_active
    /\ ~detail_mode
    /\ last_refresh' = IF key = "r" THEN 0 ELSE last_refresh
    /\ show_todos' = IF key = "t" THEN ~show_todos ELSE show_todos
    /\ show_mcps' = IF key = "m" THEN ~show_mcps ELSE show_mcps
    /\ show_all_sessions' = IF key = "a" THEN ~show_all_sessions ELSE show_all_sessions
    /\ show_all_processes' = IF key = "p" THEN ~show_all_processes ELSE show_all_processes
    /\ sort_col_idx' =
          IF key = ">" THEN (sort_col_idx + 1) % Len(COLUMNS)
          ELSE IF key = "<" THEN (sort_col_idx - 1) % Len(COLUMNS)
          ELSE sort_col_idx
    /\ sort_reverse' = IF key = "s" THEN ~sort_reverse ELSE sort_reverse
    /\ filter_active' = (key = "/")
    /\ filter_text' = IF key \in {"/", "esc"} THEN <<>> ELSE filter_text
    /\ \E reads \in ReadSeqs(ReadsPerCall(sessions)) :
          LET r == get_visible_sessions(sessions, show_all_processes',
                       show_all_sessions', filter_text', sort_col_idx',
                       sort_reverse', reads)
              nav == Navigate(key, r.visible, selected_idx, scroll_offset, height,
                              show_todos' \/ show_mcps')
          IN  /\ sessions' = r.sessions
              /\ clock' = LastRead(reads)
              /\ selected_idx' = nav.selected_idx
              /\ scroll_offset' = nav.scroll_offset
    /\ visible' = <<>>
    /\ prev_visible' = <<>>
    /\ view_op' = "key"
    /\ UNCHANGED <<corrVars, processes, statusVars, ioVars, height, refreshed,
                   detailVars, cliVars, info_call>>

\* as handle_filter_key, with q leaving the loop as it does outside filter input
handle_filter_key_quitting(key) ==
    /\ main_pc = "run"
    /\ pc = "done"
    /\ filter_active
    /\ key \notin {"esc", "enter", "backspace"} => Len(filter_text) < MaxFilterLen
    /\ filter_text' =
          CASE key = "esc" -> <<>>
            [] key = "enter" -> filter_text
            [] key = "backspace" -> SubSeq(filter_text, 1, Len(filter_text) - 1)
            [] OTHER -> Append(filter_text, key)
    /\ filter_active' = (key \notin {"esc", "enter"})
    /\ visible' = <<>>
    /\ prev_visible' = <<>>
    /\ main_pc' = IF key = "q" THEN "finally" ELSE main_pc
    /\ view_op' = "filter_key"
    /\ ~detail_mode
    /\ UNCHANGED <<selected_idx, scroll_offset, show_todos, show_mcps, last_refresh,
                   height, refreshed, detailVars, db_exists, handlers, terminal, in_flight, exit, output, signals, info_call, corrVars, processes, sessions, statusVars, sort_col_idx, sort_reverse,
                   show_all_processes, show_all_sessions, clock, ioVars>>

\* _handle_filter_key: a key while the filter input is active
handle_filter_key(key) ==
    /\ main_pc = "run"
    /\ pc = "done"
    /\ filter_active
    /\ key \notin {"esc", "enter", "backspace"} => Len(filter_text) < MaxFilterLen
    /\ filter_text' =
          CASE key = "esc" -> <<>>
            [] key = "enter" -> filter_text
            [] key = "backspace" -> SubSeq(filter_text, 1, Len(filter_text) - 1)
            [] OTHER -> Append(filter_text, key)
    /\ filter_active' = (key \notin {"esc", "enter"})
    /\ visible' = <<>>
    /\ prev_visible' = <<>>
    /\ view_op' = "filter_key"
    /\ ~detail_mode
    /\ UNCHANGED <<selected_idx, scroll_offset, show_todos, show_mcps, last_refresh,
                   height, refreshed, detailVars, cliVars, info_call, corrVars, processes, sessions, statusVars, sort_col_idx, sort_reverse,
                   show_all_processes, show_all_sessions, clock, ioVars>>

----------------------------------------------------------------------------
(* The environment of Spec: the process table and the database *)

PlainArgs == <<"opencode">>

PsTemplates ==
    {[args |-> PlainArgs, cwd |-> "d1", log_ms |-> t] : t \in 0..MaxTime}
    \cup {[args |-> PlainArgs, cwd |-> c, log_ms |-> 1] : c \in {"?", "d2"}}
    \cup {[args |-> a, cwd |-> "d1", log_ms |-> 1] :
            a \in {<<"opencode", "-s", "ses_A">>,
                   <<"opencode", "-s", "ses_C">>,
                   <<"opencode", "--session", "ses_A">>,
                   <<"opencode", "run", "build">>,
                   <<"opencode", "run", "-s", "ses_A">>,
                   <<"grep", "opencode">>}}

PsRow(i, t) ==
    [pid |-> i, cpu |-> 0, rss |-> 0, tty |-> "ttys001", args |-> t.args, cwd |-> t.cwd,
     log_ms |-> t.log_ms, shape |-> "ok"]

PsTables ==
    {[i \in DOMAIN ts |-> PsRow(i, ts[i])] : ts \in SeqsUpTo(PsTemplates, MaxProcs)}

Messages(sid, times) == {[session_id |-> sid, time_created |-> t] : t \in times}

Databases ==
    {[session |-> {[id |-> "ses_A", directory |-> "d1", time_updated |-> ua],
                   [id |-> "ses_B", directory |-> dirB, time_updated |-> ub]},
      message |-> Messages("ses_A", ma) \cup Messages("ses_B", mb)] :
        ua \in 1..MaxTime, ub \in 1..MaxTime, dirB \in {"d1", "d2"},
        ma \in SUBSET (1..MaxTime), mb \in SUBSET (1..MaxTime)}

NoStatusCall ==
    [session |-> [last_message_role |-> "?", last_finish |-> NONE, last_message_time |-> 0],
     cpu_percent |-> 0, now_ms |-> 0, ret |-> NONE]

NoPureCall == [arg |-> NONE, done |-> FALSE, ret |-> NONE, raised |-> NONE]

\* signal numbers of the platform
SIGHUP == 1

SIGINT == 2

SIGTERM == 15

\* the process is running
NoExit == [how |-> "running", code |-> 0]

\* no exception is travelling
NoException == [type |-> NONE, code |-> 0]

\* no get_session_info call is in progress
NoInfoCall == [session_id |-> NONE, pc |-> "idle", message_count |-> 0,
               last_message_role |-> "?", last_message_time |-> 0,
               round_start_time |-> 0]


\* OpenCodeTop.__init__ for the fields of navigation and of the detail view
InitUi ==
    /\ selected_idx = 0
    /\ scroll_offset = 0
    /\ show_todos = FALSE
    /\ show_mcps = FALSE
    /\ refreshed = FALSE
    /\ detail_mode = FALSE
    /\ detail_scroll = 0
    /\ detail_lines = <<>>
    /\ detail_session = <<>>
    /\ detail_source = ""

\* the process inside run(): database found, handlers installed, curses on
InitInsideRun ==
    /\ db_exists = TRUE
    /\ main_pc = "run"
    /\ handlers = {SIGTERM, SIGHUP}
    /\ terminal = "curses"
    /\ in_flight = NoException
    /\ exit = NoExit
    /\ output = <<>>
    /\ signals = <<>>
    /\ info_call = NoInfoCall

InitIo ==
    /\ error = NONE
    /\ conns = 0
    /\ stmts = {}
    /\ lsof_calls = <<>>
    /\ seen = <<>>
    /\ last_io = NoIo

\* OpenCodeTop.__init__ and the locals of refresh_data before its first call
InitApp ==
    /\ InitIo
    /\ InitUi
    /\ last_refresh = 0
    /\ height = 24
    /\ built = <<>>
    /\ processes = <<>>
    /\ sessions = <<>>
    /\ claimed = {}
    /\ resolved = <<>>
    /\ remaining = <<>>
    /\ call = NoCall
    /\ pc = "start"
    /\ sort_col_idx = 0
    /\ sort_reverse = FALSE
    /\ show_all_processes = FALSE
    /\ show_all_sessions = FALSE
    /\ filter_text = <<>>
    /\ filter_active = FALSE
    /\ visible = <<>>
    /\ prev_visible = <<>>
    /\ view_op = "none"

InitProgram ==
    /\ InitApp
    /\ InitInsideRun

Init ==
    /\ ps_rows \in PsTables
    /\ db \in Databases
    /\ faults = NoFaults
    /\ InitProgram
    /\ status_call = NoStatusCall
    /\ log_call = NoPureCall
    /\ blob_call = NoPureCall
    /\ clock = 0

Next ==
    \/ refresh_data_pass1
    \/ refresh_data_pass2
    \/ refresh_data_build

Spec == Init /\ [][Next]_vars

----------------------------------------------------------------------------
(* Properties of the correlation (Spec) *)

Bound(i) == sessions[i].session # NoSession

CwdSessionIds(cwd) == {s.id : s \in {t \in db.session : t.directory = cwd}}

HasShortFlag(args, id) ==
    \E i \in 1..(Len(args) - 1) : args[i] = "-s" /\ args[i + 1] = id

HasLongFlag(args, id) ==
    \E i \in 1..(Len(args) - 1) : args[i] = "--session" /\ args[i + 1] = id

\* C1: after every refresh_data no two processes of the snapshot are bound to
\* the same session id, whatever the probed processes (several of them may
\* carry an explicit -s flag) and whatever the database holds.
C1_Uniqueness ==
    pc = "done" =>
        \A i, j \in 1..Len(sessions) :
            (i # j /\ Bound(i) /\ Bound(j))
                => sessions[i].session.session_id # sessions[j].session.session_id

\* C2: after every refresh_data a process with is_tool_process = true is paired
\* with no session, with or without -s ses_X on its command line and whatever
\* sessions its cwd holds; and no tool process ever puts an id into the claimed
\* set (every claimed id is the id resolved for some non-tool process).
C2_ToolProcessExclusion ==
    /\ pc = "done" =>
          \A i \in 1..Len(sessions) :
              sessions[i].proc.is_tool_process => ~Bound(i)
    /\ \A pid \in DOMAIN resolved :
          \E p \in Range(processes) : p.pid = pid /\ ~p.is_tool_process
    /\ \A id \in claimed : \E pid \in DOMAIN resolved : resolved[pid] = id

\* a tool process with -s ses_A in a cwd that holds sessions went through a
\* refresh in which another process was bound
C2_Witness ==
    /\ pc = "done"
    /\ \E i, j \in 1..Len(sessions) :
          /\ sessions[i].proc.is_tool_process
          /\ HasShortFlag(sessions[i].proc.cmdline, "ses_A")
          /\ CwdSessionIds(sessions[i].proc.cwd) # {}
          /\ Bound(j)

\* C3: a non-tool process whose command line contains -s ses_X is resolved to
\* exactly ses_X by pass 1, whether or not the database knows ses_X and whatever
\* else is in its cwd; find_session_for_process (tiers 2 and 3) is never called
\* for it; ses_X is in the claimed set during the whole of pass 2, in particular
\* in the claimed set every pass-2 call receives; and its snapshot pair holds
\* ses_X or, when the database has no such session, nothing.
C3_ExplicitFlagFidelity ==
    pc \in {"pass2", "done"} =>
        \A p \in Range(processes) : \A id \in {"ses_A", "ses_B", "ses_C"} :
            (~p.is_tool_process /\ HasShortFlag(p.cmdline, id)) =>
                /\ p.pid \in DOMAIN resolved
                /\ resolved[p.pid] = id
                /\ id \in claimed
                /\ call.pid # p.pid
                /\ call.pid # 0 => id \in call.claimed
                /\ pc = "done" =>
                      \A i \in 1..Len(sessions) :
                          sessions[i].proc.pid = p.pid =>
                              /\ sessions[i].session.session_id \in {id, NONE}
                              /\ Bound(i) <=> \E s \in db.session : s.id = id

\* a process with -s ses_A was bound to ses_A although ses_B, in the same cwd,
\* is newer and has more messages, and a pass-2 process made its choice
C3_Witness ==
    /\ pc = "done"
    /\ call.pid # 0
    /\ \E i \in 1..Len(sessions) :
          /\ HasShortFlag(sessions[i].proc.cmdline, "ses_A")
          /\ Bound(i)
          /\ sessions[i].session.session_id = "ses_A"
          /\ "ses_B" \in CwdSessionIds(sessions[i].proc.cwd)
          /\ MsgsSince(db, "ses_B", 0) > MsgsSince(db, "ses_A", 0)
          /\ SessionRow(db, "ses_B").time_updated > SessionRow(db, "ses_A").time_updated

\* C4: a process started with --session ses_X gets explicit session id ses_X,
\* as one started with -s ses_X does.
C4_LongFlagParsed ==
    \A p \in Range(processes) : \A id \in {"ses_A", "ses_B", "ses_C"} :
        HasLongFlag(p.cmdline, id) => p.session_id = id

OtherClaimants(i, j, cwd) ==
    {k \in 1..Len(sessions) :
        /\ k \notin {i, j}
        /\ sessions[k].proc.pid \in DOMAIN resolved
        /\ resolved[sessions[k].proc.pid] \in CwdSessionIds(cwd)}

\* two processes without explicit session id, in the same known cwd, with known
\* start times, the first started earlier; the cwd holds two sessions and no
\* other process of the snapshot is resolved to either of them
C5_Case(i, j) ==
    LET p == sessions[i].proc
        q == sessions[j].proc
    IN  /\ ~p.is_tool_process /\ ~q.is_tool_process
        /\ p.session_id = NONE /\ q.session_id = NONE
        /\ p.cwd = q.cwd /\ p.cwd \notin {"", "?"}
        /\ 0 < p.start_time_ms /\ p.start_time_ms < q.start_time_ms
        /\ Cardinality(CwdSessionIds(p.cwd)) = 2
        /\ OtherClaimants(i, j, p.cwd) = {}

\* C5: pass 2 visits the remaining processes oldest first: of two such
\* processes the one that started earlier is bound to a session of the cwd that
\* has the most messages since its start, the later one to the other session,
\* and the two are never bound to the same session.
C5_OldestFirst ==
    pc = "done" =>
        \A i, j \in 1..Len(sessions) :
            C5_Case(i, j) =>
                LET p == sessions[i].proc
                    a == sessions[i].session.session_id
                    b == sessions[j].session.session_id
                IN  /\ Bound(i) /\ Bound(j)
                    /\ a # b
                    /\ {a, b} = CwdSessionIds(p.cwd)
                    /\ MsgsSince(db, a, p.start_time_ms) >= MsgsSince(db, b, p.start_time_ms)

\* the older process is listed after the newer one and one session has strictly
\* more messages since the older process started
C5_Witness ==
    /\ pc = "done"
    /\ \E i, j \in 1..Len(sessions) :
          /\ C5_Case(i, j)
          /\ j < i
          /\ MsgsSince(db, sessions[i].session.session_id, sessions[i].proc.start_time_ms)
                > MsgsSince(db, sessions[j].session.session_id, sessions[i].proc.start_time_ms)

IsFirstUnclaimedOf(id, rows, cl) ==
    \E i \in 1..Len(rows) :
        /\ rows[i].id = id
        /\ id \notin cl
        /\ \A j \in 1..(i - 1) : rows[j].id \in cl

AllClaimed(rows, cl) == \A i \in 1..Len(rows) : rows[i].id \in cl

HasMessageSince(sid, since) ==
    \E m \in db.message : m.session_id = sid /\ m.time_created >= since

\* rows is a tier-2 result: distinct sessions of the cwd with a message at or
\* after `since`, by descending number of such messages, at most QUERY_LIMIT
IsTier2Result(rows, cwd, since) ==
    LET qualifying == {sid \in CwdSessionIds(cwd) : HasMessageSince(sid, since)}
    IN  /\ \A i \in 1..Len(rows) : rows[i].id \in qualifying
        /\ \A i, j \in 1..Len(rows) : i # j => rows[i].id # rows[j].id
        /\ Len(rows) = Min(QUERY_LIMIT, Cardinality(qualifying))
        /\ \A i, j \in 1..Len(rows) :
              i < j => MsgsSince(db, rows[i].id, since) >= MsgsSince(db, rows[j].id, since)

\* rows is a tier-3 result: distinct sessions of the cwd by descending
\* time_updated, at most QUERY_LIMIT
IsTier3Result(rows, cwd) ==
    /\ \A i \in 1..Len(rows) : rows[i].id \in CwdSessionIds(cwd)
    /\ \A i, j \in 1..Len(rows) : i # j => rows[i].id # rows[j].id
    /\ Len(rows) = Min(QUERY_LIMIT, Cardinality(CwdSessionIds(cwd)))
    /\ \A i, j \in 1..Len(rows) :
          i < j => SessionRow(db, rows[i].id).time_updated
                      >= SessionRow(db, rows[j].id).time_updated

\* C6: every call of find_session_for_process for a process without explicit
\* id follows the ladder: unknown cwd gives no session and no query; otherwise
\* tier 2 runs iff start_time_ms > 0 and, when its result has an unclaimed id,
\* the first such id is returned and tier 3 is not consulted; otherwise tier 3
\* runs and its first unclaimed id is returned, or no session when it has none.
C6_TierLadder ==
    call.pid # 0 =>
        LET p == CHOOSE q \in Range(processes) : q.pid = call.pid
            cl == call.claimed
        IN  p.session_id = NONE =>
              IF p.cwd \in {"", "?"}
              THEN call.ret = NONE /\ ~call.ran2 /\ ~call.ran3
              ELSE /\ call.ran2 <=> p.start_time_ms > 0
                   /\ call.ran2 => IsTier2Result(call.rows2, p.cwd, p.start_time_ms)
                   /\ call.ran3 => IsTier3Result(call.rows3, p.cwd)
                   /\ IF call.ran2 /\ ~AllClaimed(call.rows2, cl)
                      THEN IsFirstUnclaimedOf(call.ret, call.rows2, cl) /\ ~call.ran3
                      ELSE /\ call.ran3
                           /\ IF AllClaimed(call.rows3, cl)
                              THEN call.ret = NONE
                              ELSE IsFirstUnclaimedOf(call.ret, call.rows3, cl)

\* tier 2 returned only claimed sessions, tier 3 was consulted, its first row
\* was claimed as well and its second row was returned
C6_Witness ==
    /\ call.pid # 0
    /\ call.ran2 /\ call.rows2 # <<>>
    /\ call.ran3 /\ Len(call.rows3) > 1
    /\ call.rows3[1].id \in call.claimed
    /\ call.ret = call.rows3[2].id

\* the process the latest call of find_session_for_process was made for
CallProc == CHOOSE q \in Range(processes) : q.pid = call.pid

\* C28: in pass 2 every process with start_time_ms = 0 (no log file found)
\* chooses its session before every process with a known start time: once a
\* process with a known start time has chosen, no process with start_time_ms = 0
\* is left to choose; and a process with start_time_ms = 0 chooses by tier 3
\* only: the tier-2 query is not run and the result is the first unclaimed row
\* of tier 3, or no session.
C28_UnknownStartFirst ==
    (pc \in {"pass2", "done"} /\ call.pid # 0) =>
        /\ CallProc.start_time_ms > 0 =>
              \A q \in Range(remaining) : q.start_time_ms # 0
        /\ (CallProc.start_time_ms = 0 /\ CallProc.cwd \notin {"", "?"}) =>
              /\ ~call.ran2
              /\ call.rows2 = <<>>
              /\ call.ran3
              /\ call.ret = FirstUnclaimed(call.rows3, call.claimed)

\* a process without log file, listed after one with a known start time that
\* has not chosen yet, took the session tier 3 lists first, and that session
\* has fewer messages than the other session of the cwd
C28_Witness ==
    /\ pc = "pass2"
    /\ call.pid # 0
    /\ CallProc.start_time_ms = 0
    /\ call.ran3
    /\ call.ret # NONE
    /\ Len(call.rows3) = 2
    /\ MsgsSince(db, call.ret, 0) < MsgsSince(db, call.rows3[2].id, 0)
    /\ \E q \in Range(remaining) : q.start_time_ms > 0 /\ q.pid < call.pid

----------------------------------------------------------------------------
(* SpecLimit: pass 2 in a cwd that holds more sessions than a tier query returns *)

MaxSessions == 6    \* sessions of the cwd
MaxClaimants == 6   \* flagless processes in the cwd

LimitIds == <<"ses_1", "ses_2", "ses_3", "ses_4", "ses_5", "ses_6", "ses_7", "ses_8">>

\* k sessions in d1, session i updated at time i and, when graded, holding i
\* messages created at times 1..i
LimitDatabase(k, graded) ==
    [session |-> {[id |-> LimitIds[i], directory |-> "d1", time_updated |-> i] : i \in 1..k},
     message |-> IF graded
                 THEN UNION {Messages(LimitIds[i], 1..i) : i \in 1..k}
                 ELSE {}]

\* n flagless processes in d1 with start time t
LimitPsTable(n, t) ==
    [i \in 1..n |-> PsRow(i, [args |-> PlainArgs, cwd |-> "d1", log_ms |-> t])]

LimitStartTimes == {0, 1, 4}

InitLimit ==
    /\ \E k \in 1..MaxSessions, graded \in BOOLEAN : db = LimitDatabase(k, graded)
    /\ \E n \in 1..MaxClaimants, t \in LimitStartTimes : ps_rows = LimitPsTable(n, t)
    /\ faults = NoFaults
    /\ InitProgram
    /\ status_call = NoStatusCall
    /\ log_call = NoPureCall
    /\ blob_call = NoPureCall
    /\ clock = 0

SpecLimit == InitLimit /\ [][Next]_vars

\* pair i is a non-tool process without -s and with a known cwd
Flagless(i) ==
    LET p == sessions[i].proc
    IN  ~p.is_tool_process /\ p.session_id = NONE /\ p.cwd \notin {"", "?"}

\* the sessions of the cwd no process other than that of pair i is resolved to
UnclaimedByOthers(i) ==
    {sid \in CwdSessionIds(sessions[i].proc.cwd) :
        \A q \in DOMAIN resolved : q # sessions[i].proc.pid => resolved[q] # sid}

\* sid is among the QUERY_LIMIT most recently updated sessions of its cwd in
\* every order the tier-3 query may return
AmongNewest(sid, cwd) ==
    Cardinality({t \in CwdSessionIds(cwd) :
                    /\ t # sid
                    /\ SessionRow(db, t).time_updated >= SessionRow(db, sid).time_updated})
        < QUERY_LIMIT

\* C27 as stated: after refresh_data a non-tool, flagless process with a known
\* cwd is bound to some session whenever the database holds a session of that
\* cwd that no other process has claimed, however many sessions the cwd holds.
C27_BindingComplete ==
    pc = "done" =>
        \A i \in 1..Len(sessions) :
            (Flagless(i) /\ UnclaimedByOthers(i) # {}) => Bound(i)

\* C27: after refresh_data a non-tool, flagless process with a known cwd is
\* bound to some session whenever one of the QUERY_LIMIT most recently updated
\* sessions of that cwd is claimed by no other process; this covers every cwd
\* that holds at most QUERY_LIMIT sessions.
C27_BindingCompleteWithinLimit ==
    pc = "done" =>
        \A i \in 1..Len(sessions) :
            (Flagless(i)
                /\ \E sid \in UnclaimedByOthers(i) : AmongNewest(sid, sessions[i].proc.cwd))
              => Bound(i)

\* the cwd holds QUERY_LIMIT sessions and as many flagless processes, and the
\* process that chose last found every tier-2 row claimed and was bound to the
\* one session left, the last row of tier 3
C27_Witness ==
    /\ pc = "done"
    /\ Len(sessions) = QUERY_LIMIT
    /\ Cardinality(db.session) = QUERY_LIMIT
    /\ \A i \in 1..Len(sessions) : Flagless(i) /\ Bound(i)
    /\ call.ran2 /\ call.rows2 # <<>> /\ call.ran3
    /\ call.ret = call.rows3[QUERY_LIMIT].id

----------------------------------------------------------------------------
(* SpecStatus: infer_status on every combination of its inputs *)

Roles == {"assistant", "user", "?", "system"}

Finishes == {NONE, "", "tool-calls", "stop", "length", "error"}

\* ages around the thresholds of 30 s, 60 s and 120 s, in ms
AgeSamples == {0, 5000, 29999, 30000, 59999, 60000, 119999, 120000, 200000, 300000}

\* CPU% in tenths: 0.0, 5.0, 5.1, 47.0
CpuSamples == {0, 50, 51, 470}

LastMessageTimes == {0, 500000}

StatusInputs ==
    {[session |-> [last_message_role |-> r, last_finish |-> f, last_message_time |-> t],
      cpu_percent |-> c, now_ms |-> 500000 + a, ret |-> NONE] :
        r \in Roles, f \in Finishes, t \in LastMessageTimes, c \in CpuSamples,
        a \in AgeSamples}

InitStatus ==
    /\ status_call \in StatusInputs
    /\ log_call = NoPureCall
    /\ blob_call = NoPureCall
    /\ ps_rows = <<>>
    /\ db = [session |-> {}, message |-> {}]
    /\ faults = NoFaults
    /\ InitProgram
    /\ clock = 0

NextStatus == infer_status_call

SpecStatus == InitStatus /\ [][NextStatus]_vars

\* C7: the label infer_status returns is the one the decision table gives for
\* the role, the finish reason, the age of the last message and the CPU%:
\* assistant with absent/empty finish: generating if age < 120 s, else busy if
\* cpu > 5.0, else stale; tool-calls: tool use if age < 30 s, else busy if
\* cpu > 5.0, else idle; stop: busy if cpu > 5.0, else idle; length: truncated;
\* any other finish: idle; user: thinking if cpu > 5.0 or age < 60 s, else
\* queued; any other role: unknown.  Each row fixes the label from these four
\* inputs alone.
C7_StatusTable ==
    status_call.ret # NONE =>
        LET role == status_call.session.last_message_role
            finish == status_call.session.last_finish
            lmt == status_call.session.last_message_time
            age == IF lmt = 0 THEN 9999000 ELSE status_call.now_ms - lmt
            hot == status_call.cpu_percent > 50
            ret == status_call.ret
            streaming == role = "assistant" /\ finish \in {NONE, ""}
            tools == role = "assistant" /\ finish = "tool-calls"
            stop == role = "assistant" /\ finish = "stop"
            other == role = "assistant"
                        /\ finish \notin {NONE, "", "tool-calls", "stop", "length"}
        IN  /\ (streaming /\ age < 120000) => ret = "generating"
            /\ (streaming /\ age >= 120000 /\ hot) => ret = "busy"
            /\ (streaming /\ age >= 120000 /\ ~hot) => ret = "stale"
            /\ (tools /\ age < 30000) => ret = "tool use"
            /\ (tools /\ age >= 30000 /\ hot) => ret = "busy"
            /\ (tools /\ age >= 30000 /\ ~hot) => ret = "idle"
            /\ (stop /\ hot) => ret = "busy"
            /\ (stop /\ ~hot) => ret = "idle"
            /\ (role = "assistant" /\ finish = "length") => ret = "truncated"
            /\ other => ret = "idle"
            /\ (role = "user" /\ (hot \/ age < 60000)) => ret = "thinking"
            /\ (role = "user" /\ ~hot /\ age >= 60000) => ret = "queued"
            /\ role \notin {"assistant", "user"} => ret = "unknown"

\* the database lags: assistant, empty finish, last message 300 s old, CPU 47%
C7_Witness ==
    /\ status_call.ret = "busy"
    /\ status_call.session.last_message_role = "assistant"
    /\ status_call.session.last_finish = ""
    /\ status_call.now_ms - status_call.session.last_message_time = 300000
    /\ status_call.session.last_message_time # 0
    /\ status_call.cpu_percent = 470

----------------------------------------------------------------------------
(* SpecView: the visible list of a snapshot under the list-mode keys *)

\* snapshot pairs: three sessions (two of processes without log file, one not
\* interactive), a process without session and a tool process
ViewFixtures ==
    {[args |-> PlainArgs, cpu |-> 0, rss |-> 100, tty |-> "t1", cwd |-> "d1", log_ms |-> 0,
      session |-> [session_id |-> "ses_A", title |-> "b", model |-> "m",
                   message_count |-> 2, total_input_tokens |-> 10, last_output |-> "a",
                   round_start_time |-> 0, last_message_role |-> "assistant",
                   last_finish |-> NONE, last_message_time |-> 5, interactive |-> TRUE]],
     [args |-> PlainArgs, cpu |-> 60, rss |-> 100, tty |-> "t1", cwd |-> "d1", log_ms |-> 0,
      session |-> [session_id |-> "ses_B", title |-> "a", model |-> "m",
                   message_count |-> 2, total_input_tokens |-> 20, last_output |-> "a",
                   round_start_time |-> 5, last_message_role |-> "assistant",
                   last_finish |-> "stop", last_message_time |-> 5, interactive |-> TRUE]],
     [args |-> PlainArgs, cpu |-> 0, rss |-> 200, tty |-> "t2", cwd |-> "d2", log_ms |-> 5,
      session |-> [session_id |-> "ses_C", title |-> "B", model |-> "m",
                   message_count |-> 7, total_input_tokens |-> 10, last_output |-> "",
                   round_start_time |-> 5, last_message_role |-> "user",
                   last_finish |-> NONE, last_message_time |-> 5, interactive |-> FALSE]],
     [args |-> PlainArgs, cpu |-> 0, rss |-> 100, tty |-> "t2", cwd |-> "?", log_ms |-> 0,
      session |-> NoSession],
     [args |-> <<"opencode", "run", "build">>, cpu |-> 0, rss |-> 100, tty |-> "?",
      cwd |-> "d1", log_ms |-> 5, session |-> NoSession]}

ViewPair(i, f) ==
    [proc |-> ProcessInfo([pid |-> i, cpu |-> f.cpu, rss |-> f.rss, tty |-> f.tty,
                           args |-> f.args, cwd |-> f.cwd, log_ms |-> f.log_ms]),
     session |-> f.session]

\* the snapshots of up to MaxRows pairs in which no session is bound twice
Snapshots ==
    {[i \in DOMAIN fs |-> ViewPair(i, fs[i])] :
        fs \in {gs \in SeqsUpTo(ViewFixtures, MaxRows) :
                   \A i, j \in DOMAIN gs :
                       (i # j /\ gs[i].session # NoSession) => gs[i].session # gs[j].session}}

\* list mode right after a refresh_data that built `sessions`
InitView ==
    /\ sessions \in Snapshots
    /\ processes = [i \in DOMAIN sessions |-> sessions[i].proc]
    /\ resolved = [pid \in {i \in DOMAIN sessions : sessions[i].session # NoSession} |->
                      sessions[pid].session.session_id]
    /\ claimed = Range(resolved)
    /\ remaining = <<>>
    /\ call = NoCall
    /\ pc = "done"
    /\ ps_rows = <<>>
    /\ db = [session |-> {}, message |-> {}]
    /\ status_call = NoStatusCall
    /\ log_call = NoPureCall
    /\ blob_call = NoPureCall
    /\ sort_col_idx = 0
    /\ sort_reverse = FALSE
    /\ show_all_processes = FALSE
    /\ show_all_sessions = FALSE
    /\ filter_text = <<>>
    /\ filter_active = FALSE
    /\ visible = <<>>
    /\ prev_visible = <<>>
    /\ view_op = "none"
    /\ clock = 120000
    /\ faults = NoFaults
    /\ InitIo
    /\ InitUi
    /\ InitInsideRun
    /\ last_refresh = clock
    /\ height = 24
    /\ built = sessions

\* the keys that toggle visibility and change the sort
SortKeys == {"a", "p", ">", "<", "s"}

NextView ==
    \/ draw
    \/ \E key \in SortKeys : list_key(key)

SpecView == InitView /\ [][NextView]_vars

\* the keys that toggle visibility and edit the filter
FilterListKeys == {"a", "p", "/", "esc"}

FilterInputKeys == {"esc", "enter", "backspace", "a", "B"}

NextFilter ==
    \/ draw
    \/ \E key \in FilterListKeys : list_key(key)
    \/ \E key \in FilterInputKeys : handle_filter_key(key)

SpecFilter == InitView /\ [][NextFilter]_vars

\* C8: in the list _get_visible_sessions returns, every process without a
\* session comes after every process with a session, for every sort key and
\* both sort directions.
C8_NoSessionLast ==
    view_op = "draw" =>
        \A i, j \in 1..Len(visible) :
            (i < j /\ visible[i].session = NoSession) => visible[j].session = NoSession

PrimaryNow(pair) ==
    sort_value(COLUMNS[sort_col_idx + 1], pair.proc, pair.session, clock, clock)[2]

TitleKey(pair) == Codes(Lower(Chars(pair.session.title)))

\* C9: with snapshot data, filter, toggles and sort settings unchanged, two
\* consecutive computations of the visible list (the two of one drawing) give
\* the same row order for every sort key, and rows with equal primary value are
\* ordered by lowercase title (in the direction of the sort).
C9_SortStability ==
    view_op = "draw" =>
        /\ prev_visible = visible
        /\ \A i, j \in 1..Len(visible) :
              (/\ i < j
               /\ visible[i].session # NoSession
               /\ visible[j].session # NoSession
               /\ PrimaryNow(visible[i]) = PrimaryNow(visible[j]))
                  => IF sort_reverse
                     THEN ~SeqLess(TitleKey(visible[i]), TitleKey(visible[j]))
                     ELSE ~SeqLess(TitleKey(visible[j]), TitleKey(visible[i]))

\* C10: _get_visible_sessions leaves self.sessions as refresh_data built it:
\* the same pairs, in the order of the probed processes, under every
\* combination of toggles, filter text and sort settings.
C10_SnapshotUntouched ==
    /\ Len(sessions) = Len(processes)
    /\ \A i \in 1..Len(sessions) : sessions[i].proc = processes[i]

\* C11: a row is in the visible list only if (show_all_processes is on, or the
\* process is not a tool process and has a session) and (show_all_sessions is
\* on, or the row has no session, or its session is interactive); with both
\* toggles off no tool process, no session-less process and no non-interactive
\* session is visible.
C11_VisibilityPolicy ==
    view_op = "draw" =>
        \A list \in {visible, prev_visible} : \A i \in 1..Len(list) :
            LET proc == list[i].proc
                session == list[i].session
            IN  /\ show_all_processes \/ (~proc.is_tool_process /\ session # NoSession)
                /\ show_all_sessions \/ session = NoSession \/ session.interactive
                /\ (~show_all_processes /\ ~show_all_sessions) =>
                      /\ ~proc.is_tool_process
                      /\ session # NoSession
                      /\ session.interactive

\* with both toggles off a drawing hid a row of the snapshot and showed another
C11_Witness ==
    /\ view_op = "draw"
    /\ ~show_all_processes /\ ~show_all_sessions
    /\ Len(sessions) = 2 /\ Len(visible) = 1
    /\ \E i \in 1..2 : sessions[i].session = NoSession

\* the lower-cased fields of a row the filter text is looked up in
FilterFields(pair) ==
    {Lower(Chars(pair.proc.cwd)), Lower(Chars(pair.proc.tty))}
    \cup (IF pair.session = NoSession THEN {}
          ELSE {Lower(Chars(pair.session.title)), Lower(Chars(pair.session.model)),
                Lower(Chars(pair.session.session_id)),
                Lower(Chars(infer_status(pair.session, pair.proc.cpu_percent, clock)))})

PolicyRows ==
    {r \in Range(sessions) : PassesVisibility(r, show_all_processes, show_all_sessions)}

----------------------------------------------------------------------------
(* SpecDb: refreshes and the detail view over a database that can fail *)

DbPsTables ==
    {[i \in DOMAIN ts |-> PsRow(i, ts[i])] :
        ts \in SeqsUpTo({[args |-> PlainArgs, cwd |-> "d1", log_ms |-> 1],
                         [args |-> <<"opencode", "-s", "ses_A">>, cwd |-> "d1",
                          log_ms |-> 1]}, 2)}

\* ses_A and ses_B in d1, ses_B the more recent one, ses_A with a message
DbFixture ==
    [session |-> {[id |-> "ses_A", directory |-> "d1", time_updated |-> 1],
                  [id |-> "ses_B", directory |-> "d1", time_updated |-> 2]},
     message |-> Messages("ses_A", {1})]

InitDb ==
    /\ ps_rows \in DbPsTables
    /\ db = DbFixture
    /\ faults \in {[NoFaults EXCEPT !.db = {"ok", o}] : o \in DbOutcomes \ {"ok"}}
    /\ InitProgram
    /\ status_call = NoStatusCall
    /\ log_call = NoPureCall
    /\ blob_call = NoPureCall
    /\ clock = 0

NextDb ==
    \/ refresh_data_pass1
    \/ refresh_data_pass2
    \/ refresh_data_build
    \/ gc
    \/ \E i \in 1..2, tmux \in BOOLEAN : refresh_detail_data(i, tmux)

SpecDb == InitDb /\ [][NextDb]_vars

\* the last step was the final loop of refresh_data
AfterBuild == pc = "done" /\ Len(last_io.outs) = Len(sessions) /\ sessions # <<>>

\* the queries get_session_info ran for pair i in the final loop
InfoQueriesRun(i) ==
    IF processes[i].pid \notin DOMAIN resolved THEN {}
    ELSE {c.name : c \in Range(SessionInfoCalls(db, resolved[processes[i].pid],
                                                last_io.outs[i]))}

\* C13 as stated: no database error leaves refresh_data, and a process for
\* which a query of the refresh failed is shown without a session.
C13_AffectedShownWithoutSession ==
    /\ error = NONE
    /\ AfterBuild =>
          \A i \in 1..Len(sessions) :
              (\E q \in InfoQueriesRun(i) : last_io.outs[i][q] # "ok")
                  => sessions[i].session = NoSession

\* the outcome the last step met at the call site `name`, NONE if it made no
\* such call
OutcomeAt(name) ==
    IF \E k \in 1..Len(last_io.db) : last_io.db[k].name = name
    THEN last_io.db[CHOOSE k \in 1..Len(last_io.db) : last_io.db[k].name = name].outcome
    ELSE NONE

\* C13: query_db returns no rows when the database file is absent or when
\* opening or executing raises a database error, and no database error leaves
\* refresh_data or the detail view.  A process is shown without a session when
\* the failure hits its session query (the first query of get_session_info) or
\* every correlation query made for it; when only the tier-2 query fails tier 3
\* may still bind the process, and when a later query of get_session_info fails
\* the session is shown with the default for the fact that query provides.
C13_FailuresAbsorbed ==
    /\ error = NONE
    /\ OutcomeAt("tier2") \notin {NONE, "ok"} => call.rows2 = <<>>
    /\ OutcomeAt("tier3") \notin {NONE, "ok"} => call.rows3 = <<>>
    /\ (/\ OutcomeAt("tier3") \notin {NONE, "ok"}
        /\ OutcomeAt("tier2") # "ok") => call.ret = NONE
    /\ AfterBuild =>
          \A i \in 1..Len(sessions) :
              /\ processes[i].pid \notin DOMAIN resolved
                    => sessions[i].session = NoSession
              /\ ("session_info" \in InfoQueriesRun(i)
                  /\ last_io.outs[i].session_info # "ok")
                    => sessions[i].session = NoSession
              /\ ("last_msg" \in InfoQueriesRun(i)
                  /\ last_io.outs[i].last_msg # "ok"
                  /\ sessions[i].session # NoSession)
                    => sessions[i].session.last_message_time = 0

\* the session query of a process bound to ses_A hit a lock: the process is
\* shown without a session although the database holds ses_A
C13_Witness ==
    /\ AfterBuild
    /\ \E i \in 1..Len(sessions) :
          /\ processes[i].pid \in DOMAIN resolved
          /\ resolved[processes[i].pid] = "ses_A"
          /\ last_io.outs[i].session_info = "exec_error"
          /\ sessions[i].session = NoSession
          /\ \E r \in db.session : r.id = "ses_A"

\* C14: every connection query_db opens is closed by query_db before it
\* returns, on the success path and on the path where the query raises a
\* database error: between two steps of the program no connection is open.
C14_ConnectionsClosed == conns = 0

\* C15: no step of the program (refresh, correlation, session facts, stats,
\* detail view) changes the database, and every statement sent to it is a
\* SELECT on a read-only connection.
C15_ReadOnly ==
    [][/\ db' = db
       /\ \A st \in stmts' : st.verb = "SELECT" /\ st.mode = "ro"]_vars

\* a refresh with correlation and session facts and a detail view have
\* queried the database
C15_Witness ==
    {"today_stats", "global_stats", "tier2", "tier3", "session_info", "last_msg",
     "round_msg", "last_part", "todos", "recent_messages", "message_part"}
        \subseteq {st.name : st \in stmts}

----------------------------------------------------------------------------
(* SpecProbe: refreshes over a process table that ps and lsof may fail to read *)

\* lines of ps: opencode processes and one other command, in every shape
ProbeRows(i) ==
    {[pid |-> i, cpu |-> 0, rss |-> 0, tty |-> "ttys001", args |-> a, cwd |-> "d1",
      log_ms |-> 1, shape |-> sh] :
        a \in {PlainArgs, <<"opencode", "-s", "ses_A">>, <<"grep", "opencode">>},
        sh \in RowShapes}

ProbeTables ==
    UNION {{t \in [1..n -> UNION {ProbeRows(i) : i \in 1..n}] :
               \A i \in 1..n : t[i].pid = i} : n \in 0..2}

InitProbe ==
    /\ ps_rows \in ProbeTables
    /\ db = DbFixture
    /\ faults = [ps |-> ChildOutcomes, lsof |-> ChildOutcomes, db |-> {"ok"}]
    /\ InitProgram
    /\ status_call = NoStatusCall
    /\ log_call = NoPureCall
    /\ blob_call = NoPureCall
    /\ clock = 0

NextProbe ==
    \/ refresh_data_pass1
    \/ refresh_data_pass2
    \/ refresh_data_build

SpecProbe == InitProbe /\ [][NextProbe]_vars

\* C16: when ps is missing, times out or prints malformed rows (too few
\* columns, or a pid, %cpu or rss field that is not a number),
\* get_opencode_processes returns a list without raising, an empty one when
\* ps could not be run, and refresh_data goes on.
C16_ProbeNeverRaises ==
    /\ error = NONE
    /\ (pc = "pass2" /\ last_io.ps \in {"missing", "timeout"}) => processes = <<>>

\* the opencode processes among the lines of ps
Candidates == RawRows(ps_rows)

\* C19: one refresh invokes lsof at most once, with the pids of all candidate
\* processes in that one call, and not at all when ps gave no candidate (or
\* could not be run): the number of invocations does not grow with the number
\* of processes.
C19_SingleLsof ==
    (error = NONE /\ pc # "start") =>
        /\ Len(lsof_calls) <= 1
        /\ processes = <<>> <=> lsof_calls = <<>>
        /\ processes # <<>> =>
              lsof_calls = <<[i \in 1..Len(processes) |-> processes[i].pid]>>
        /\ (last_io.ps = "ok" /\ pc = "pass2") =>
              Len(processes) = Len(Candidates)

\* a probe found two opencode processes and asked lsof about both at once
C19_Witness ==
    /\ error = NONE
    /\ pc = "pass2"
    /\ Len(processes) = 2
    /\ lsof_calls = << <<1, 2>> >>

----------------------------------------------------------------------------
(* SpecLog: _parse_log_timestamp on the base names of log paths *)

\* a base name: `matches` says whether it starts with four digits, "-", two
\* digits, "-", two digits, "T", six digits and ".log" (re.match anchors the
\* pattern at the start only); the numbers are what the digit groups spell;
\* `tail` is what follows ".log"
LogNames ==
    {[matches |-> m, year |-> y, month |-> mo, day |-> d, hour |-> h, minute |-> mi,
      second |-> sec, tail |-> t] :
        m \in BOOLEAN, y \in {1970, 1972, 2026}, mo \in {0, 2, 12, 13},
        d \in {0, 1, 28, 29, 30, 31}, h \in {0, 23, 24, 99}, mi \in {0, 59, 60},
        sec \in {0, 59, 60}, t \in {"", ".1"}}

IsLeap(y) == (y % 4 = 0 /\ y % 100 # 0) \/ y % 400 = 0

DaysInMonth(y, m) ==
    IF m = 2 THEN (IF IsLeap(y) THEN 29 ELSE 28)
    ELSE IF m \in {4, 6, 9, 11} THEN 30 ELSE 31

\* the arguments datetime(...) accepts; it raises ValueError for the others
ValidDateTime(n) ==
    /\ n.year \in 1..9999
    /\ n.month \in 1..12
    /\ n.day \in 1..DaysInMonth(n.year, n.month)
    /\ n.hour \in 0..23
    /\ n.minute \in 0..59
    /\ n.second \in 0..59

\* days from 1970-01-01 to the date, for years from 1970 on
DaysSinceEpoch(y, m, d) ==
    365 * (y - 1970) + Cardinality({k \in 1970..(y - 1) : IsLeap(k)})
    + (d - 1)
    + IF m = 1 THEN 0
      ELSE LET RECURSIVE before(_)
               before(k) == IF k = 0 THEN 0 ELSE DaysInMonth(y, k) + before(k - 1)
           IN  before(m - 1)

\* dt.timestamp() of the UTC datetime, in whole seconds; the code returns
\* this times 1000
EpochSeconds(n) ==
    ((DaysSinceEpoch(n.year, n.month, n.day) * 24 + n.hour) * 60 + n.minute) * 60
    + n.second

\* _parse_log_timestamp(logpath) for a path with base name n; ret is the
\* result in seconds (0 stands for 0 ms)
parse_log_timestamp(n) ==
    IF ~n.matches THEN [arg |-> n, done |-> TRUE, ret |-> 0, raised |-> NONE]
    ELSE IF ~ValidDateTime(n)
         THEN [arg |-> n, done |-> TRUE, ret |-> 0, raised |-> "ValueError"]
         ELSE [arg |-> n, done |-> TRUE, ret |-> EpochSeconds(n), raised |-> NONE]

parse_log_timestamp_call ==
    /\ ~log_call.done
    /\ log_call' = parse_log_timestamp(log_call.arg)
    /\ UNCHANGED <<runVars, corrVars, processes, sessions, status_call, blob_call, viewVars, ioVars>>

InitLog ==
    /\ log_call \in {[NoPureCall EXCEPT !.arg = n, !.ret = 0] : n \in LogNames}
    /\ status_call = NoStatusCall
    /\ blob_call = NoPureCall
    /\ ps_rows = <<>>
    /\ db = [session |-> {}, message |-> {}]
    /\ faults = NoFaults
    /\ InitProgram
    /\ clock = 0

NextLog == parse_log_timestamp_call

SpecLog == InitLog /\ [][NextLog]_vars

\* a base name of the form YYYY-MM-DDTHHMMSS.log that spells a date and time
IsLogTimestamp(n) == n.matches /\ n.tail = "" /\ ValidDateTime(n)

\* C17: _parse_log_timestamp never raises, and returns 0 for every path whose
\* base name is not a valid YYYY-MM-DDTHHMMSS.log timestamp, names that match
\* the digit pattern but spell an impossible date or time included.
C17_ParseTotal ==
    /\ log_call.raised = NONE
    /\ (log_call.done /\ ~IsLogTimestamp(log_call.arg)) => log_call.ret = 0

----------------------------------------------------------------------------
(* SpecBlob: the decoding of part and message data blobs *)

\* what a data column can hold: text neither sqlite nor json.loads accepts
\* ("malformed"), an object in a JSON5 spelling that sqlite accepts and
\* json.loads rejects ("json5"), SQL NULL ("sql_null"), a JSON value that is
\* not an object, or a JSON object
JsonKinds == {"malformed", "json5", "sql_null", "null", "number", "list", "object"}

\* the lines of a text: sequences of up to two characters
TextLines == SeqsUpTo({" ", "a"}, 2)

\* the value under the key "text" of an object: no such key, null, a number,
\* or a string given by its lines
TextValues ==
    {[kind |-> k, lines |-> <<>>] : k \in {"absent", "null", "number"}}
    \cup {[kind |-> "string", lines |-> ls] : ls \in SeqsUpTo(TextLines, 2)}

\* the value under "tokens": no such key, null, a number, an object with
\* numbers, an object whose "cache" is null
TokenValues == {"absent", "null", "number", "object", "cache_null"}

Blobs ==
    {[json |-> j, text |-> [kind |-> "absent", lines |-> <<>>], tokens |-> "absent"] :
        j \in JsonKinds \ {"object"}}
    \cup {[json |-> "object", text |-> t, tokens |-> k] :
            t \in TextValues, k \in TokenValues}

\* json_extract(p.data, '$.type') = 'text' keeps objects only (the key "type"
\* of every object of the model is "text"); on a malformed blob it raises, and
\* query_db returns no row at all
SelectedAsTextPart(b) == b.json \in {"json5", "object"}

\* str.strip() of one line
RECURSIVE Strip(_)
Strip(l) ==
    IF l = <<>> THEN l
    ELSE IF Head(l) = " " THEN Strip(Tail(l))
    ELSE IF l[Len(l)] = " " THEN Strip(SubSeq(l, 1, Len(l) - 1))
    ELSE l

\* lines = [l.strip() for l in text.strip().splitlines() if l.strip()]
\* lines[-1] if lines else ""
LastLine(ls) ==
    LET kept(l) == Strip(l) # <<>>
        lines == SelectSeq(ls, kept)
    IN  IF lines = <<>> THEN <<>> ELSE Strip(lines[Len(lines)])

\* json.loads(blob): the exception it raises, NONE when it returns a value
JsonLoads(b) ==
    CASE b.json \in {"malformed", "json5"} -> "ValueError"
      [] b.json = "sql_null" -> "TypeError"
      [] OTHER -> NONE

Decoded(fn, b, ret, raised) ==
    [fn |-> fn, arg |-> b, done |-> TRUE, ret |-> ret, raised |-> raised]

\* get_session_info, lines 572-579: last_output_text from the part blob; the
\* except clause catches ValueError and KeyError
last_output(b) ==
    IF JsonLoads(b) = "ValueError" THEN Decoded("last_output", b, <<>>, NONE)
    ELSE IF JsonLoads(b) # NONE THEN Decoded("last_output", b, <<>>, JsonLoads(b))
    ELSE IF b.json # "object" THEN Decoded("last_output", b, <<>>, "AttributeError")
    ELSE IF b.text.kind = "absent" THEN Decoded("last_output", b, <<>>, NONE)
    ELSE IF b.text.kind = "string"
         THEN Decoded("last_output", b, LastLine(b.text.lines), NONE)
         ELSE Decoded("last_output", b, <<>>, "AttributeError")

\* get_recent_messages, lines 836-852: one message row; ret is what the row
\* adds to the result: <<"message">> when appended, <<>> when skipped
recent_message(b) ==
    IF JsonLoads(b) = "ValueError" THEN Decoded("recent_message", b, <<>>, NONE)
    ELSE IF JsonLoads(b) # NONE THEN Decoded("recent_message", b, <<>>, JsonLoads(b))
    ELSE IF b.json # "object"
         THEN Decoded("recent_message", b, <<>>, "AttributeError")
    ELSE IF b.tokens \in {"null", "number", "cache_null"}
         THEN Decoded("recent_message", b, <<>>, "AttributeError")
         ELSE Decoded("recent_message", b, <<"message">>, NONE)

\* get_recent_messages, lines 872-877: text_preview from the part blob, ret
\* being the lines of pdata.get("text", "")[:200]
text_preview(b) ==
    IF JsonLoads(b) = "ValueError" THEN Decoded("text_preview", b, <<>>, NONE)
    ELSE IF JsonLoads(b) # NONE THEN Decoded("text_preview", b, <<>>, JsonLoads(b))
    ELSE IF b.json # "object" THEN Decoded("text_preview", b, <<>>, "AttributeError")
    ELSE IF b.text.kind = "absent" THEN Decoded("text_preview", b, <<>>, NONE)
    ELSE IF b.text.kind = "string" THEN Decoded("text_preview", b, b.text.lines, NONE)
    ELSE Decoded("text_preview", b, <<>>, "TypeError")

decode_blob_call ==
    /\ ~blob_call.done
    /\ blob_call' =
          CASE blob_call.fn = "last_output" -> last_output(blob_call.arg)
            [] blob_call.fn = "recent_message" -> recent_message(blob_call.arg)
            [] blob_call.fn = "text_preview" -> text_preview(blob_call.arg)
    /\ UNCHANGED <<runVars, corrVars, processes, sessions, status_call, log_call, viewVars, ioVars>>

\* the blobs each decoder can be handed: the part queries select text parts,
\* the message query selects the data column as it is
BlobCalls ==
    {[fn |-> f, arg |-> b, done |-> FALSE, ret |-> <<>>, raised |-> NONE] :
        f \in {"last_output", "text_preview"}, b \in {x \in Blobs : SelectedAsTextPart(x)}}
    \cup {[fn |-> "recent_message", arg |-> b, done |-> FALSE, ret |-> <<>>,
           raised |-> NONE] : b \in Blobs}

InitBlob ==
    /\ blob_call \in BlobCalls
    /\ status_call = NoStatusCall
    /\ log_call = NoPureCall
    /\ ps_rows = <<>>
    /\ db = [session |-> {}, message |-> {}]
    /\ faults = NoFaults
    /\ InitProgram
    /\ clock = 0

NextBlob == decode_blob_call

SpecBlob == InitBlob /\ [][NextBlob]_vars

\* a blob that json.loads turns into an object with text and tokens as the
\* decoders expect them
WellShaped(b) ==
    /\ b.json = "object"
    /\ b.text.kind \in {"absent", "string"}
    /\ b.tokens \in {"absent", "object"}

\* C18: a part or message blob that is not valid JSON or not of the expected
\* shape (text or tokens null, the blob not an object) is skipped, with empty
\* last_output or preview and the message left out, and no exception leaves
\* get_session_info or get_recent_messages.
C18_BlobsSkipped ==
    blob_call.done =>
        /\ blob_call.raised = NONE
        /\ ~WellShaped(blob_call.arg) => blob_call.ret = <<>>

----------------------------------------------------------------------------
(* What a drawing finds in self.sessions (SpecView) *)

\* C20: every drawing of the list view finds self.sessions exactly as the last
\* refresh_data left it, the same pairs in the same order; refresh_data and the
\* drawings are steps of the one run loop, so no drawing happens between the
\* emptying of self.sessions and its last append.
C20_DrawSeesSnapshot ==
    view_op = "draw" => (pc = "done" /\ seen = built)

----------------------------------------------------------------------------
(* SpecCli: cli(), the signal handlers and the ways the process ends *)

MaxSignals == 2     \* signals delivered to the process in one behaviour

Exited(code) == [how |-> "exited", code |-> code]

\* the default action of a signal without handler
Killed(sig) == [how |-> "killed", code |-> sig]

Written(stream, text) == [stream |-> stream, text |-> text]

\* cli, lines 2143-2147: the check of the database file
cli_check_db ==
    /\ main_pc = "cli"
    /\ IF db_exists
       THEN /\ main_pc' = "sigterm"
            /\ UNCHANGED <<output, exit>>
       ELSE /\ output' = Append(output, Written("stdout", "error: opencode db not found"))
            /\ exit' = Exited(1)
            /\ main_pc' = "exited"
    /\ UNCHANGED <<corrVars, processes, sessions, statusVars, viewVars, ioVars, navVars,
                   detailVars, db_exists, handlers, terminal, in_flight, signals, info_call>>

\* cli, lines 2150-2151: signal.signal(sig, _signal_exit), SIGTERM then SIGHUP
cli_signal(sig) ==
    /\ main_pc = (IF sig = SIGTERM THEN "sigterm" ELSE "sighup")
    /\ handlers' = handlers \cup {sig}
    /\ main_pc' = (IF sig = SIGTERM THEN "sighup" ELSE "title")
    /\ UNCHANGED <<corrVars, processes, sessions, statusVars, viewVars, ioVars, navVars,
                   detailVars, db_exists, terminal, in_flight, exit, output, signals,
                   info_call>>

\* _set_process_title: the escape sequences written to stdout
set_process_title ==
    /\ main_pc = "title"
    /\ output' = Append(output, Written("stdout", "title"))
    /\ main_pc' = "wrapper"
    /\ UNCHANGED <<corrVars, processes, sessions, statusVars, viewVars, ioVars, navVars,
                   detailVars, db_exists, handlers, terminal, in_flight, exit, signals,
                   info_call>>

\* curses.wrapper(main) up to the call of run(): initscr() and the object
wrapper_init ==
    /\ main_pc = "wrapper"
    /\ terminal' = "curses"
    /\ main_pc' = "run"
    /\ UNCHANGED <<corrVars, processes, sessions, statusVars, viewVars, ioVars, navVars,
                   detailVars, db_exists, handlers, in_flight, exit, output, signals,
                   info_call>>

\* run, lines 2017-2018: q in list mode outside filter input leaves the loop,
\* run() and main() return into the finally block of curses.wrapper
run_quit ==
    /\ main_pc = "run"
    /\ pc = "done"
    /\ ~detail_mode
    /\ ~filter_active
    /\ main_pc' = "finally"
    /\ UNCHANGED <<corrVars, processes, sessions, statusVars, viewVars, ioVars, navVars,
                   detailVars, db_exists, handlers, terminal, in_flight, exit, output,
                   signals, info_call>>

\* the finally block of curses.wrapper: keypad(0), echo(), nocbreak(), endwin()
wrapper_finally ==
    /\ main_pc = "finally"
    /\ terminal' = "shell"
    /\ main_pc' = "unwound"
    /\ UNCHANGED <<corrVars, processes, sessions, statusVars, viewVars, ioVars, navVars,
                   detailVars, db_exists, handlers, in_flight, exit, output, signals,
                   info_call>>

\* cli, lines 2155-2159: what left curses.wrapper meets `except
\* KeyboardInterrupt: pass`; a SystemExit goes on and gives the exit code
cli_exit ==
    /\ main_pc = "unwound"
    /\ exit' = IF in_flight.type = "SystemExit" THEN Exited(in_flight.code) ELSE Exited(0)
    /\ in_flight' = NoException
    /\ main_pc' = "exited"
    /\ UNCHANGED <<corrVars, processes, sessions, statusVars, viewVars, ioVars, navVars,
                   detailVars, db_exists, handlers, terminal, output, signals, info_call>>

\* what the handler of a signal raises in the main thread: _signal_exit
\* (lines 2132-2140) raises SystemExit(128 + signum), Python's own handler of
\* SIGINT raises KeyboardInterrupt
HandlerRaises(sig) ==
    IF sig = SIGINT THEN [type |-> "KeyboardInterrupt", code |-> 0]
    ELSE [type |-> "SystemExit", code |-> 128 + sig]

\* a signal reaches the process.  Without handler it ends the process.  With
\* one, the exception is raised where the main thread stands: outside
\* curses.wrapper it leaves cli(); inside run() it unwinds into the finally
\* block of curses.wrapper; inside that block it replaces the exception in
\* flight and the calls of the block not yet made are skipped.
deliver(sig) ==
    /\ exit = NoExit
    /\ Len(signals) < MaxSignals
    /\ signals' = Append(signals, [sig |-> sig, at |-> main_pc])
    /\ IF sig # SIGINT /\ sig \notin handlers
       THEN /\ exit' = Killed(sig)
            /\ main_pc' = "exited"
            /\ UNCHANGED in_flight
       ELSE IF main_pc \in {"cli", "sigterm", "sighup", "title"}
       THEN /\ exit' = IF sig = SIGINT THEN Killed(sig) ELSE Exited(128 + sig)
            /\ main_pc' = "exited"
            /\ UNCHANGED in_flight
       ELSE /\ in_flight' = HandlerRaises(sig)
            /\ main_pc' = IF main_pc \in {"wrapper", "run"} THEN "finally" ELSE "unwound"
            /\ UNCHANGED exit
    /\ UNCHANGED <<corrVars, processes, sessions, statusVars, viewVars, ioVars, navVars,
                   detailVars, db_exists, handlers, terminal, output, info_call>>

\* the keys of SpecCli: / opens the filter input, where q is a character
CliListKeys == {"/"}

CliFilterKeys == {"q", "esc"}

InitCli ==
    /\ db_exists \in BOOLEAN
    /\ main_pc = "cli"
    /\ handlers = {}
    /\ terminal = "shell"
    /\ in_flight = NoException
    /\ exit = NoExit
    /\ output = <<>>
    /\ signals = <<>>
    /\ info_call = NoInfoCall
    /\ InitApp
    /\ clock = 120000
    /\ ps_rows = <<PsRow(1, [args |-> PlainArgs, cwd |-> "d1", log_ms |-> 1])>>
    /\ db = [session |-> {}, message |-> {}]
    /\ faults = NoFaults
    /\ status_call = NoStatusCall
    /\ log_call = NoPureCall
    /\ blob_call = NoPureCall

NextCli ==
    \/ cli_check_db
    \/ \E sig \in {SIGTERM, SIGHUP} : cli_signal(sig)
    \/ set_process_title
    \/ wrapper_init
    \/ refresh_data_pass1
    \/ refresh_data_pass2
    \/ refresh_data_build
    \/ \E key \in CliListKeys : list_key(key)
    \/ \E key \in CliFilterKeys : handle_filter_key(key)
    \/ run_quit
    \/ \E sig \in {SIGTERM, SIGHUP, SIGINT} : deliver(sig)
    \/ wrapper_finally
    \/ cli_exit

SpecCli == InitCli /\ [][NextCli]_vars

\* C21: when the database file is absent at startup, cli prints one line to
\* stderr and exits with code 1, before it installs signal handlers, sets the
\* process title or enters curses.
C21_StartupPrecondition ==
    (~db_exists /\ exit # NoExit /\ signals = <<>>) =>
        /\ exit = Exited(1)
        /\ output = <<Written("stderr", "error: opencode db not found")>>
        /\ handlers = {}
        /\ terminal = "shell"

\* the signals delivered once both handlers were installed
AfterStartup == {"title", "wrapper", "run", "finally", "unwound"}

\* C22: a SIGTERM or SIGHUP that arrives at any point after startup ends the
\* program with exit code 128 + signum and with the terminal restored; q in
\* list mode outside filter input, and ctrl-C, end it with exit code 0.
C22_TerminationOutcomes ==
    exit # NoExit =>
        /\ (Len(signals) = 1 /\ signals[1].sig # SIGINT /\ signals[1].at \in AfterStartup)
              => (exit = Exited(128 + signals[1].sig) /\ terminal = "shell")
        /\ (Len(signals) = 1 /\ signals[1].sig = SIGINT /\ signals[1].at = "run")
              => (exit = Exited(0) /\ terminal = "shell")
        /\ (signals = <<>> /\ db_exists) => (exit = Exited(0) /\ terminal = "shell")

----------------------------------------------------------------------------
(* SpecRun: the run loop, list mode and detail view *)

REFRESH_INTERVAL == 2000    \* ms

DETAIL_MARGIN == 10         \* max_scroll = max(0, len(self.detail_lines) - 10)

MaxClock == 122000          \* the loop is followed up to this time

\* what time.time() can return at the top of an iteration: the clock as last
\* read, or one timeout of getch() later
TickTimes == {t \in {clock, clock + REFRESH_INTERVAL} : t <= MaxClock}

\* whether refresh_data is due at time now (line 1995)
RefreshDueAlways(now, last) == TRUE

RefreshDue(now, last) == now - last >= REFRESH_INTERVAL

\* capture_tmux_pane: None, or the lines of the pane
Captures ==
    {[ok |-> FALSE, lines |-> <<>>]}
    \cup {[ok |-> TRUE, lines |-> [i \in 1..n |-> "pane"]] : n \in {1, 12}}

\* the lines refresh_detail_data formats from get_recent_messages
Histories == {[i \in 1..n |-> "message"] : n \in {0, 11}}

\* self.detail_lines from the formatted messages
HistoryLines(history) == IF history = <<>> THEN <<"  (no messages)">> ELSE history

\* refresh_detail_data: the lines and the source it leaves for the pair
DetailData(pair, capture, history) ==
    IF capture.ok THEN [detail_lines |-> capture.lines, detail_source |-> "tmux"]
    ELSE IF pair.session = NoSession
         THEN [detail_lines |-> <<"  (no session data)">>, detail_source |-> ""]
         ELSE [detail_lines |-> HistoryLines(history), detail_source |-> "db"]

\* as ToggleSource, with the pane shown whether or not the capture succeeded
ToggleSourceBlind(pair, source, lines, capture, history) ==
    IF source = "tmux"
    THEN IF pair.session # NoSession
         THEN [detail_lines |-> HistoryLines(history), detail_source |-> "db"]
         ELSE [detail_lines |-> lines, detail_source |-> source]
    ELSE [detail_lines |-> capture.lines, detail_source |-> "tmux"]

\* _toggle_detail_source: the lines and the source after tab
ToggleSource(pair, source, lines, capture, history) ==
    IF source = "tmux"
    THEN IF pair.session # NoSession
         THEN [detail_lines |-> HistoryLines(history), detail_source |-> "db"]
         ELSE [detail_lines |-> lines, detail_source |-> source]
    ELSE IF capture.ok
         THEN [detail_lines |-> capture.lines, detail_source |-> "tmux"]
         ELSE [detail_lines |-> lines, detail_source |-> source]

\* the outcome of capture_tmux_pane as last_io records it
Captured(capture) == [NoIo EXCEPT !.tmux = IF capture.ok THEN "ok" ELSE "failed"]

\* the snapshots refresh_data can build: interactive sessions, each bound once
RunSnapshots ==
    {snap \in Snapshots :
        \A i \in DOMAIN snap : snap[i].session # NoSession /\ snap[i].session.interactive}

\* the top of a list-mode iteration (lines 1957, 1995-1997): refresh_data runs
\* when REFRESH_INTERVAL has passed since self.last_refresh, and replaces
\* self.processes and self.sessions by what the probe and the database give
list_tick ==
    /\ main_pc = "run"
    /\ pc \in {"start", "done"}
    /\ error = NONE
    /\ ~detail_mode
    /\ view_op \in {"none", "key", "filter_key", "enter", "detail_key"}
    /\ \E now \in TickTimes :
          /\ clock' = now
          /\ IF RefreshDue(now, last_refresh)
             THEN /\ \E snap \in RunSnapshots :
                       /\ sessions' = snap
                       /\ processes' = [i \in DOMAIN snap |-> snap[i].proc]
                       /\ built' = snap
                  /\ pc' = "done"
                  /\ last_refresh' = now
                  /\ refreshed' = TRUE
             ELSE /\ refreshed' = FALSE
                  /\ UNCHANGED <<sessions, processes, built, pc, last_refresh>>
    /\ view_op' = "tick"
    /\ UNCHANGED <<ps_rows, db, claimed, resolved, remaining, call, statusVars, sort_col_idx, sort_reverse, show_all_processes,
                   show_all_sessions, filter_text, filter_active, visible, prev_visible,
                   faults, error, conns, stmts, lsof_calls, seen, last_io,
                   selected_idx, scroll_offset, show_todos, show_mcps, height,
                   detailVars, cliVars, info_call>>

\* the drawing of a list-mode iteration (lines 1999-2008)
run_draw == view_op = "tick" /\ draw

\* getch() and the key handling of a list-mode iteration (lines 2010-2092)
run_list_key(key) == view_op = "draw" /\ list_key(key)

run_filter_key(key) == view_op = "draw" /\ handle_filter_key(key)

run_q == view_op = "draw" /\ run_quit

\* enter in list mode outside filter input (lines 2052-2054): _enter_detail
enter_detail ==
    /\ main_pc = "run"
    /\ pc = "done"
    /\ view_op = "draw"
    /\ ~filter_active
    /\ ~detail_mode
    /\ \E reads \in ReadSeqs(ReadsPerCall(sessions)), capture \in Captures,
          history \in Histories :
          LET r == get_visible_sessions(sessions, show_all_processes, show_all_sessions,
                       filter_text, sort_col_idx, sort_reverse, reads)
          IN  /\ sessions' = r.sessions
              /\ clock' = LastRead(reads)
              /\ IF selected_idx >= Len(r.visible)
                 THEN /\ last_io' = NoIo
                      /\ UNCHANGED detailVars
                 ELSE LET pair == r.visible[selected_idx + 1]
                          data == DetailData(pair, capture, history)
                      IN  /\ last_io' = Captured(capture)
                          /\ detail_session' = <<pair>>
                          /\ detail_scroll' = 0
                          /\ detail_mode' = TRUE
                          /\ detail_lines' = data.detail_lines
                          /\ detail_source' = data.detail_source
    /\ visible' = <<>>
    /\ prev_visible' = <<>>
    /\ view_op' = "enter"
    /\ UNCHANGED <<corrVars, processes, statusVars, sort_col_idx, sort_reverse,
                   show_all_processes, show_all_sessions, filter_text, filter_active,
                   faults, error, conns, stmts, lsof_calls, built, seen, navVars,
                   cliVars, info_call>>

\* the top of a detail-mode iteration (lines 1960-1970): the pane is captured
\* again when the source is tmux and REFRESH_INTERVAL has passed, then the
\* detail view is drawn
detail_tick ==
    /\ main_pc = "run"
    /\ detail_mode
    /\ view_op \in {"enter", "detail_key"}
    /\ \E now \in TickTimes, capture \in Captures, history \in Histories :
          /\ clock' = now
          /\ IF detail_source = "tmux" /\ now - last_refresh >= REFRESH_INTERVAL
             THEN LET data == DetailData(detail_session[1], capture, history)
                  IN  /\ detail_lines' = data.detail_lines
                      /\ detail_source' = data.detail_source
                      /\ last_refresh' = now
                      /\ last_io' = Captured(capture)
             ELSE /\ last_io' = NoIo
                  /\ UNCHANGED <<detail_lines, detail_source, last_refresh>>
    /\ view_op' = "detail_draw"
    /\ UNCHANGED <<corrVars, processes, sessions, statusVars, sort_col_idx, sort_reverse,
                   show_all_processes, show_all_sessions, filter_text, filter_active,
                   visible, prev_visible, faults, error, conns, stmts, lsof_calls, built,
                   seen, selected_idx, scroll_offset, show_todos,
                   show_mcps, height, refreshed, detail_mode, detail_session,
                   detail_scroll, cliVars, info_call>>

\* the keys of a detail-mode iteration (lines 1972-1992)
detail_key(key) ==
    /\ main_pc = "run"
    /\ detail_mode
    /\ view_op = "detail_draw"
    /\ detail_mode' = (key \notin {"esc", "q"})
    /\ last_refresh' = IF key \in {"esc", "q"} THEN 0 ELSE last_refresh
    /\ \E capture \in Captures, history \in Histories :
          LET data == IF key = "r" THEN DetailData(detail_session[1], capture, history)
                      ELSE IF key = "tab"
                      THEN ToggleSource(detail_session[1], detail_source, detail_lines,
                                        capture, history)
                      ELSE [detail_lines |-> detail_lines, detail_source |-> detail_source]
              max_scroll == Max(0, Len(data.detail_lines) - DETAIL_MARGIN)
          IN  /\ detail_lines' = data.detail_lines
              /\ detail_source' = data.detail_source
              /\ last_io' = IF key = "r" \/ (key = "tab" /\ detail_source # "tmux")
                            THEN Captured(capture) ELSE NoIo
              /\ detail_scroll' =
                    CASE key = "tab" -> 0
                      [] key = "j" -> Min(detail_scroll + 1, max_scroll)
                      [] key = "k" -> Max(detail_scroll - 1, 0)
                      [] key = "d" -> Min(detail_scroll + height \div 2, max_scroll)
                      [] key = "u" -> Max(detail_scroll - height \div 2, 0)
                      [] OTHER -> detail_scroll
    /\ view_op' = "detail_key"
    /\ UNCHANGED <<corrVars, processes, sessions, statusVars, sort_col_idx, sort_reverse,
                   show_all_processes, show_all_sessions, filter_text, filter_active,
                   visible, prev_visible, clock, faults, error, conns, stmts, lsof_calls,
                   built, seen, selected_idx, scroll_offset, show_todos, show_mcps,
                   height, refreshed, detail_session, cliVars, info_call>>

\* the keys of SpecRun
RunListKeys == {"r", "j", "k", "/", "none"}

RunFilterKeys == {"r", "q", "esc", "enter", "backspace"}

RunDetailKeys == {"esc", "q", "r", "tab", "j", "k", "none"}

\* the object after __init__, inside run() before its first iteration
InitRun ==
    /\ InitApp
    /\ InitInsideRun
    /\ clock = 120000
    /\ ps_rows = <<>>
    /\ db = [session |-> {}, message |-> {}]
    /\ faults = NoFaults
    /\ status_call = NoStatusCall
    /\ log_call = NoPureCall
    /\ blob_call = NoPureCall

NextRun ==
    \/ list_tick
    \/ run_draw
    \/ \E key \in RunListKeys : run_list_key(key)
    \/ \E key \in RunFilterKeys : run_filter_key(key)
    \/ run_q
    \/ enter_detail
    \/ detail_tick
    \/ \E key \in RunDetailKeys : detail_key(key)

SpecRun == InitRun /\ [][NextRun]_vars

\* the characters _handle_filter_key appends: printable ASCII
Printable == Range(Alphabet)

\* C23: while filter_active is true the key of an iteration goes to
\* _handle_filter_key only, which changes nothing but filter_text and
\* filter_active: the mode is left with the text cleared (esc) or kept (enter),
\* and within the mode the text loses its last character or gains a printable
\* one; q does not quit, enter does not open the detail view, and sort column,
\* sort direction, toggles, selection and scroll offset stay as they are.
C23_FilterInput ==
    [][(filter_active /\ view_op = "draw") =>
          /\ view_op' = "filter_key"
          /\ main_pc' = "run"
          /\ ~detail_mode'
          /\ UNCHANGED <<sort_col_idx, sort_reverse, show_all_processes, show_all_sessions,
                         selected_idx, scroll_offset, show_todos, show_mcps, last_refresh,
                         sessions, processes, detail_session>>
          /\ IF filter_active'
             THEN filter_text' \in {filter_text, SubSeq(filter_text, 1, Len(filter_text) - 1)}
                                   \cup {Append(filter_text, c) : c \in Printable}
             ELSE filter_text' \in {<<>>, filter_text}]_vars

C23_Witness ==
    /\ view_op = "filter_key"
    /\ filter_active
    /\ filter_text = <<"q">>
    /\ selected_idx = 1

\* a step that leaves the detail view
LeavesDetail == \E key \in {"esc", "q"} : detail_key(key)

\* C24 as stated: after esc or q in the detail view and after r in list mode
\* (filter input included) self.last_refresh is 0, and the list-mode iteration
\* that follows runs refresh_data; otherwise list mode runs refresh_data only
\* when REFRESH_INTERVAL has passed since the last refresh.
C24_ForcedRefreshAnyListKey ==
    [][/\ (LeavesDetail \/ list_key("r") \/ handle_filter_key("r")) => last_refresh' = 0
       /\ (view_op' = "tick" /\ last_refresh = 0) => refreshed'
       /\ (view_op' = "tick" /\ refreshed') => clock' - last_refresh >= REFRESH_INTERVAL]_vars

\* C24, amended: after esc or q in the detail view and after r in list mode
\* outside filter input self.last_refresh is 0, and the list-mode iteration
\* that follows runs refresh_data before drawing; otherwise list mode runs
\* refresh_data only when REFRESH_INTERVAL has passed since the last refresh.
\* In filter input r is a character of the filter text and forces nothing.
C24_ForcedRefresh ==
    [][/\ (LeavesDetail \/ list_key("r")) => last_refresh' = 0
       /\ handle_filter_key("r") => last_refresh' = last_refresh
       /\ (view_op' = "tick" /\ last_refresh = 0) => refreshed'
       /\ (view_op' = "tick" /\ refreshed') => clock' - last_refresh >= REFRESH_INTERVAL]_vars

\* a refresh forced one millisecond after the first one
C24_Witness == view_op = "tick" /\ refreshed /\ clock = 120001

\* the step ran refresh_detail_data: _enter_detail on an existing row, r in
\* the detail view, or the automatic re-capture
RefreshesDetail ==
    \/ view_op' = "enter" /\ detail_mode'
    \/ detail_key("r")
    \/ view_op' = "detail_draw" /\ last_io'.tmux # NONE

C26_SelectionValid ==
    (view_op = "draw" /\ visible # <<>>) =>
        (selected_idx < Len(visible) /\ scroll_offset <= selected_idx)

\* C30: in detail mode 0 <= detail_scroll <= max(0, len(detail_lines) - 10) in
\* every state, also after the automatic re-capture or the r key replaced
\* detail_lines by a shorter list.
C30_DetailScrollBound ==
    detail_mode =>
        (0 <= detail_scroll /\ detail_scroll <= Max(0, Len(detail_lines) - DETAIL_MARGIN))

----------------------------------------------------------------------------
(* SpecWriter: one get_session_info call while the host tool commits messages *)

MaxMessages == 3    \* messages the session holds at most

\* SELECT time_created FROM message WHERE session_id = ?
\* AND json_extract(data, '$.role') = 'user' ORDER BY time_created DESC LIMIT 1
RoundMsgRows(d, sid) ==
    LET msgs == {m \in d.message : m.session_id = sid /\ m.role = "user"}
    IN  IF msgs = {} THEN <<>>
        ELSE <<CHOOSE m \in msgs : \A o \in msgs : o.time_created <= m.time_created>>

\* the message the host tool stores at time t
HostMessage(sid, t, role) == [session_id |-> sid, time_created |-> t, role |-> role]

\* the host tool commits one more message of the session; the database is
\* in WAL mode, so the commit does not wait for the reader
host_commit ==
    /\ Cardinality(db.message) < MaxMessages
    /\ \E role \in {"user", "assistant"} :
          db' = [db EXCEPT !.message =
                    @ \cup {HostMessage("ses_A", Cardinality(db.message) + 1, role)}]
    /\ UNCHANGED <<ps_rows, processes, sessions, claimed, resolved, remaining, call, pc,
                   statusVars, viewVars, faults, error, conns, stmts, lsof_calls, built,
                   seen, last_io, runVars>>

\* what the steps of get_session_info leave alone, besides DbEffects
InfoFrame ==
    UNCHANGED <<ps_rows, processes, sessions, claimed, resolved, remaining, call, pc,
                statusVars, viewVars, faults, lsof_calls, built, seen, navVars,
                detailVars, cliVars>>

\* rows = query_db(SELECT s.id, ..., count(m.id) as msg_count ...)
info_session_query(sid) ==
    /\ main_pc = "run"
    /\ info_call.pc \in {"idle", "done"}
    /\ LET rows == query_db("ok", SessionInfoRows(db, sid)).rows
       IN  info_call' = IF rows = <<>> THEN [NoInfoCall EXCEPT !.pc = "done"]
                        ELSE [NoInfoCall EXCEPT !.session_id = sid, !.pc = "last_msg",
                                                !.message_count = rows[1].msg_count]
    /\ DbEffects(<<DbCall("session_info", "ok")>>)
    /\ InfoFrame

\* last_msg = query_db(SELECT role, ..., time_created ... LIMIT 1)
info_last_msg_query ==
    /\ main_pc = "run"
    /\ info_call.pc = "last_msg"
    /\ LET last_msg == query_db("ok", LastMsgRows(db, info_call.session_id)).rows
       IN  info_call' = [info_call EXCEPT
                            !.pc = "round_msg",
                            !.last_message_role =
                                IF last_msg = <<>> THEN "?" ELSE last_msg[1].role,
                            !.last_message_time =
                                IF last_msg = <<>> THEN 0 ELSE last_msg[1].time_created]
    /\ DbEffects(<<DbCall("last_msg", "ok")>>)
    /\ InfoFrame

\* round_msg = query_db(SELECT time_created ... role = 'user' ... LIMIT 1)
info_round_msg_query ==
    /\ main_pc = "run"
    /\ info_call.pc = "round_msg"
    /\ LET round_msg == query_db("ok", RoundMsgRows(db, info_call.session_id)).rows
       IN  info_call' = [info_call EXCEPT
                            !.pc = "last_part",
                            !.round_start_time =
                                IF round_msg = <<>> THEN 0 ELSE round_msg[1].time_created]
    /\ DbEffects(<<DbCall("round_msg", "ok")>>)
    /\ InfoFrame

\* the last_part and todos queries and the return of the SessionInfo
info_return ==
    /\ main_pc = "run"
    /\ info_call.pc = "last_part"
    /\ info_call' = [info_call EXCEPT !.pc = "done"]
    /\ DbEffects(<<DbCall("last_part", "ok"), DbCall("todos", "ok")>>)
    /\ InfoFrame

\* the session ses_A with the messages the host tool stored so far
WriterDatabases ==
    {[session |-> {[id |-> "ses_A", directory |-> "d1", time_updated |-> 1]},
      message |-> {HostMessage("ses_A", t, roles[t]) : t \in DOMAIN roles}] :
        roles \in SeqsUpTo({"user", "assistant"}, MaxMessages - 1)}

InitWriter ==
    /\ ps_rows = <<>>
    /\ db \in WriterDatabases
    /\ faults = NoFaults
    /\ InitProgram
    /\ status_call = NoStatusCall
    /\ log_call = NoPureCall
    /\ blob_call = NoPureCall
    /\ clock = 0

NextWriter ==
    \/ host_commit
    \/ info_session_query("ses_A")
    \/ info_last_msg_query
    \/ info_round_msg_query
    \/ info_return

SpecWriter == InitWriter /\ [][NextWriter]_vars

\* the database as it was when it held the messages created up to time k
DatabaseAt(k) == [db EXCEPT !.message = {m \in @ : m.time_created <= k}]

\* the facts of the call are those of the one database state d
DescribesState(d) ==
    LET sid == info_call.session_id
        last_msg == LastMsgRows(d, sid)
        round_msg == RoundMsgRows(d, sid)
    IN  /\ info_call.message_count = SessionInfoRows(d, sid)[1].msg_count
        /\ info_call.last_message_role = IF last_msg = <<>> THEN "?" ELSE last_msg[1].role
        /\ info_call.last_message_time =
              IF last_msg = <<>> THEN 0 ELSE last_msg[1].time_created
        /\ info_call.round_start_time =
              IF round_msg = <<>> THEN 0 ELSE round_msg[1].time_created

\* C29: the SessionInfo one get_session_info call returns describes a single
\* database state: message_count, last_message_role, last_message_time and
\* round_start_time are those of one set of messages the database held, even
\* when the host tool commits messages between the queries of the call.
C29_SingleDatabaseState ==
    (info_call.pc = "done" /\ info_call.session_id # NONE) =>
        \E k \in 0..MaxMessages : DescribesState(DatabaseAt(k))

====
